---------------------------- MODULE Spec2Model ----------------------------
(***************************************************************************)
(* Analysis & alerting engine of the aquaponics controller.                *)
(*                                                                         *)
(* AlertManager (src/src/hydroponics/alerts/manager.py): the threshold     *)
(* classifier, the cooldown gate over alert_history, and the notification  *)
(* dispatcher, driven by the scheduler jobs of core/main.py.               *)
(*                                                                         *)
(* Units: sensor values and thresholds are in tenths (5.5 is 55); time is  *)
(* in minutes.                                                             *)
(***************************************************************************)
EXTENDS Integers, Sequences, FiniteSets, Bags, TLC

VARIABLES
    now,            \* datetime.now(), minutes since start
    alert_history,  \* AlertManager.alert_history: alert_key -> last_sent
    email_client,   \* AlertManager.email_client is not None
    sms_client,     \* AlertManager.sms_client is not None
    email_to,       \* config.email_to is non-empty
    sms_to,         \* config.sms_to is non-empty
    pc,             \* per job: position inside check_thresholds
    idx,            \* per job: position of the for-loop in sensors.items()
    value,          \* per job: loop variable `value`
    alert,          \* per job: local `alert`
    alerts,         \* per job: local list `alerts`
    returned,       \* what the last check_thresholds call returned, None
                    \* from the moment the next call begins
    cycles,         \* number of check_thresholds calls started
    tests,          \* number of test_notifications calls
    outbox,         \* bag of the send attempts made on the channels
    accepted,       \* bag of the alerts that passed the gate, with the time
    suppressed,     \* bag of the alerts the gate dropped, with the time
    ev,             \* input and output of a single _check_sensor_threshold call
    ta,             \* input and output of a single TrendAnalyzer call
    pa,             \* input and output of a single ParameterAnalyzer call
    main            \* main.py: config, system_state relays and alerts

vars == <<now, alert_history, email_client, sms_client, email_to, sms_to,
          pc, idx, value, alert, alerts, returned, cycles, tests,
          outbox, accepted, suppressed, ev, ta, pa, main>>

-----------------------------------------------------------------------------
(* Bounds of the model *)

MaxTime == 45
MaxCycles == 3
MaxOverlapCycles == 2
MaxApiCycles == 2
MaxTests == 1
MaxValue == 310

(* Program constants *)

cooldown_minutes == 30

-----------------------------------------------------------------------------
(* Python's None and an optional value *)

None == <<>>
Some(x) == <<x>>
Get(o) == o[1]

-----------------------------------------------------------------------------
(* AlertManager.thresholds, in tenths *)

thresholds ==
    [ ph |->
        [critical_low |-> 50, warning_low |-> 55, warning_high |-> 75,
         critical_high |-> 80, optimal_min |-> 60, optimal_max |-> 70],
      ec |->
        [critical_low |-> 5, warning_low |-> 8, warning_high |-> 25,
         critical_high |-> 30, optimal_min |-> 10, optimal_max |-> 18],
      do |->
        [critical_low |-> 40, warning_low |-> 50, warning_high |-> 120,
         critical_high |-> 150, optimal_min |-> 60, optimal_max |-> 90],
      temp_reservoir |->
        [critical_low |-> 100, warning_low |-> 160, warning_high |-> 240,
         critical_high |-> 280, optimal_min |-> 180, optimal_max |-> 220],
      temp_fish_tank |->
        [critical_low |-> 80, warning_low |-> 100, warning_high |-> 180,
         critical_high |-> 200, optimal_min |-> 120, optimal_max |-> 150],
      water_level_percent |->
        [critical_low |-> 200, warning_low |-> 300,
         optimal_min |-> 500, optimal_max |-> 900] ]

(* three keys of the dict `sensors` handed to check_thresholds, in its     *)
(* order: two with a threshold set and one without                         *)
SensorKeys == <<"ph", "do", "water_level">>

(* the readings a sensor may return: None, or a value in tenths *)
SampleValues == {45, 52}
Readings == {None} \cup {Some(v) : v \in SampleValues}

(* the scheduler jobs that run read_all_sensors *)
Jobs == {"read_sensors", "startup_read"}

(* the clock advances in steps of this many minutes *)
TickSteps == {15}

-----------------------------------------------------------------------------
(* _check_sensor_threshold: first match of critical low, critical high,    *)
(* warning low, warning high; None when nothing matches                    *)

Message(prefix, sensor_name, text, v) == <<prefix, sensor_name, text, v>>

MkAlert(level, sensor_name, v, threshold, prefix, text, t) ==
    Some([timestamp |-> t, level |-> level, sensor |-> sensor_name,
          value |-> v, threshold |-> threshold,
          message |-> Message(prefix, sensor_name, text, v)])

(* variant: a value equal to a bound triggers it (<= and >= for < and >) *)
_check_sensor_threshold_inclusive(sensor_name, v, th, t) ==
    IF "critical_low" \in DOMAIN th /\ v <= th["critical_low"]
    THEN MkAlert("critical", sensor_name, v, th["critical_low"],
                 "CRITICAL", "is dangerously low", t)
    ELSE IF "critical_high" \in DOMAIN th /\ v >= th["critical_high"]
    THEN MkAlert("critical", sensor_name, v, th["critical_high"],
                 "CRITICAL", "is dangerously high", t)
    ELSE IF "warning_low" \in DOMAIN th /\ v <= th["warning_low"]
    THEN MkAlert("warning", sensor_name, v, th["warning_low"],
                 "WARNING", "is low", t)
    ELSE IF "warning_high" \in DOMAIN th /\ v >= th["warning_high"]
    THEN MkAlert("warning", sensor_name, v, th["warning_high"],
                 "WARNING", "is high", t)
    ELSE None

_check_sensor_threshold(sensor_name, v, th, t) ==
    IF "critical_low" \in DOMAIN th /\ v < th["critical_low"]
    THEN MkAlert("critical", sensor_name, v, th["critical_low"],
                 "CRITICAL", "is dangerously low", t)
    ELSE IF "critical_high" \in DOMAIN th /\ v > th["critical_high"]
    THEN MkAlert("critical", sensor_name, v, th["critical_high"],
                 "CRITICAL", "is dangerously high", t)
    ELSE IF "warning_low" \in DOMAIN th /\ v < th["warning_low"]
    THEN MkAlert("warning", sensor_name, v, th["warning_low"],
                 "WARNING", "is low", t)
    ELSE IF "warning_high" \in DOMAIN th /\ v > th["warning_high"]
    THEN MkAlert("warning", sensor_name, v, th["warning_high"],
                 "WARNING", "is high", t)
    ELSE None

-----------------------------------------------------------------------------
(* The cooldown gate *)

(* variant: the level is left out of the key *)
alert_key_sensor(a) == a.sensor

alert_key(a) == a.sensor \o "_" \o a.level

(* variant: an entry never ages out of the window *)
_is_in_cooldown_sticky(a, history, t) == alert_key(a) \in DOMAIN history

(* variant: the window closes one minute late (<= for <) *)
_is_in_cooldown_inclusive(a, history, t) ==
    /\ alert_key(a) \in DOMAIN history
    /\ t - history[alert_key(a)] <= cooldown_minutes

_is_in_cooldown(a, history, t) ==
    /\ alert_key(a) \in DOMAIN history
    /\ t - history[alert_key(a)] < cooldown_minutes

(* variant: an entry, once made, is kept (setdefault for assignment) *)
_record_alert_first(a, history, t) ==
    [k \in DOMAIN history \cup {alert_key(a)} |->
        IF k \in DOMAIN history THEN history[k] ELSE t]

_record_alert(a, history, t) ==
    [k \in DOMAIN history \cup {alert_key(a)} |->
        IF k = alert_key(a) THEN t ELSE history[k]]

-----------------------------------------------------------------------------
(* _send_notifications: one attempt per configured channel, email first,   *)
(* each inside its own try/except.  outcome is what the channel does:      *)
(* "ok" or "fail" (the client raises).                                     *)

Attempt(channel, a, outcome) ==
    [channel |-> channel, alert |-> a, ok |-> (outcome = "ok")]

(* variant: a failed send is tried once more *)
_send_notifications_retry(a, has_email, has_sms, email_outcome, sms_outcome) ==
    LET again(channel, outcome) ==
            IF outcome = "fail" THEN <<Attempt(channel, a, "ok")>> ELSE <<>>
        email == IF has_email
                 THEN <<Attempt("email", a, email_outcome)>>
                      \o again("email", email_outcome)
                 ELSE <<>>
        sms   == IF has_sms
                 THEN <<Attempt("sms", a, sms_outcome)>>
                      \o again("sms", sms_outcome)
                 ELSE <<>>
    IN [attempts |-> email \o sms, raised |-> FALSE]

(* variant: the email send is outside any try, so its exception ends the   *)
(* dispatch before the SMS block                                           *)
_send_notifications_unguarded(a, has_email, has_sms, email_outcome, sms_outcome) ==
    LET email == IF has_email
                 THEN <<Attempt("email", a, email_outcome)>> ELSE <<>>
        sms   == IF has_sms
                 THEN <<Attempt("sms", a, sms_outcome)>> ELSE <<>>
    IN IF has_email /\ email_outcome = "fail"
       THEN [attempts |-> email, raised |-> TRUE]
       ELSE [attempts |-> email \o sms, raised |-> FALSE]

_send_notifications(a, has_email, has_sms, email_outcome, sms_outcome) ==
    LET email == IF has_email
                 THEN <<Attempt("email", a, email_outcome)>> ELSE <<>>
        sms   == IF has_sms
                 THEN <<Attempt("sms", a, sms_outcome)>> ELSE <<>>
    IN [attempts |-> email \o sms, raised |-> FALSE]

Outcomes == {"ok", "fail"}

-----------------------------------------------------------------------------
(* State after AlertManager.__init__ *)

EmptyHistory == [k \in {} |-> 0]

(* <<email_client, email_to, sms_client, sms_to>> as __init__ and the      *)
(* environment leave them: no channel, both channels, and an email client  *)
(* without a recipient beside SMS                                          *)
Configs ==
    { <<FALSE, FALSE, FALSE, FALSE>>, <<TRUE, TRUE, TRUE, TRUE>>,
      <<TRUE, FALSE, TRUE, TRUE>> }

NoEval == [sensor |-> "ph", value |-> 0, result |-> None, done |-> TRUE]

(* no TrendAnalyzer or ParameterAnalyzer call is under way *)
NoTrend == [done |-> TRUE]
NoCorr == [done |-> TRUE]

(* the water quality thresholds of class Config that control_automation     *)
(* reads, at their defaults, in tenths                                      *)
Config ==
    [temp_min |-> 180, temp_max |-> 220,
     temp_critical_low |-> 100, temp_critical_high |-> 280,
     do_normal |-> 70, do_critical |-> 50]

(* main.py before its module body ran: the default config, the relays off   *)
NoAutomation ==
    [config |-> Config,
     started |-> FALSE,
     relays |-> [heater |-> FALSE, backup_aerator |-> FALSE],
     alerts |-> <<>>,
     runs |-> 0]

InitManager ==
    /\ now = 0
    /\ alert_history = EmptyHistory
    /\ \E c \in Configs :
        /\ email_client = c[1]
        /\ email_to = c[2]
        /\ sms_client = c[3]
        /\ sms_to = c[4]
    /\ pc = [j \in Jobs |-> "idle"]
    /\ idx = [j \in Jobs |-> 0]
    /\ value = [j \in Jobs |-> None]
    /\ alert = [j \in Jobs |-> None]
    /\ alerts = [j \in Jobs |-> <<>>]
    /\ returned = None
    /\ cycles = 0
    /\ tests = 0
    /\ outbox = EmptyBag
    /\ accepted = EmptyBag
    /\ suppressed = EmptyBag

Init ==
    /\ InitManager
    /\ ev = NoEval
    /\ ta = NoTrend
    /\ pa = NoCorr
    /\ main = NoAutomation

config_vars == <<email_client, sms_client, email_to, sms_to>>

(* the state of the AlertManager and of its callers *)
manager_vars == <<now, alert_history, config_vars, pc, idx, value, alert,
                  alerts, returned, cycles, tests, outbox, accepted,
                  suppressed>>

-----------------------------------------------------------------------------
(* check_thresholds, one step per statement that reads or writes state     *)
(* shared between jobs                                                     *)

Resting(j) == pc[j] \in {"idle", "raised"}

(* leaving check_thresholds: its locals are gone *)
Leave(j, to) ==
    /\ pc' = [pc EXCEPT ![j] = to]
    /\ idx' = [idx EXCEPT ![j] = 0]
    /\ value' = [value EXCEPT ![j] = None]
    /\ alert' = [alert EXCEPT ![j] = None]
    /\ alerts' = [alerts EXCEPT ![j] = <<>>]

(* next iteration of the for loop *)
Continue(j) ==
    /\ pc' = [pc EXCEPT ![j] = "iter"]
    /\ idx' = [idx EXCEPT ![j] = idx[j] + 1]

(* a scheduler job calls check_thresholds.  The one-off job startup_read   *)
(* is due at once and the interval job read_sensors five minutes later,    *)
(* so startup_read makes the first call and read_sensors all others; a job *)
(* never overlaps itself                                                   *)
Begin(j, max_cycles) ==
    /\ Resting(j)
    /\ cycles < max_cycles
    /\ j = "startup_read" <=> cycles = 0
    /\ cycles' = cycles + 1
    /\ pc' = [pc EXCEPT ![j] = "iter"]
    /\ idx' = [idx EXCEPT ![j] = 1]
    /\ alerts' = [alerts EXCEPT ![j] = <<>>]
    /\ returned' = None
    /\ UNCHANGED <<now, alert_history, config_vars, value, alert, tests,
                   outbox, accepted, suppressed, ev, ta, pa, main>>

(* the single periodic driver: a cycle starts when no other is running *)
StartCycle(j) ==
    /\ \A k \in Jobs : Resting(k)
    /\ Begin(j, MaxCycles)

(* the same driver, in the model that also calls test_notifications *)
StartApiCycle(j) ==
    /\ \A k \in Jobs : Resting(k)
    /\ Begin(j, MaxApiCycles)

(* the scheduler's thread pool: a job starts when it is due, whether or    *)
(* not the other job is still running                                      *)
StartJob(j) == Begin(j, MaxOverlapCycles)

(* variant: only the second `continue` test *)
SkippedNoThresholds(sensor_name, r) == sensor_name \notin DOMAIN thresholds

(* the two `continue` tests at the head of the loop body *)
Skipped(sensor_name, r) ==
    \/ r = None
    \/ sensor_name \notin DOMAIN thresholds

(* variant: the evaluation itself records the alert it built *)
EvaluateRecording(j) ==
    /\ pc[j] = "iter"
    /\ idx[j] <= Len(SensorKeys)
    /\ \E r \in Readings :
        LET sensor_name == SensorKeys[idx[j]] IN
        IF Skipped(sensor_name, r)
        THEN /\ value' = [value EXCEPT ![j] = r]
             /\ Continue(j)
             /\ UNCHANGED <<alert, alerts>>
        ELSE IF r = None \/ sensor_name \notin DOMAIN thresholds
        THEN Leave(j, "raised")
        ELSE LET a == _check_sensor_threshold(
                         sensor_name, Get(r), thresholds[sensor_name], now)
             IN /\ value' = [value EXCEPT ![j] = r]
                /\ alert' = [alert EXCEPT ![j] = a]
                /\ UNCHANGED alerts
                /\ IF a = None
                   THEN Continue(j)
                   ELSE /\ pc' = [pc EXCEPT ![j] = "gate"]
                        /\ UNCHANGED idx
    /\ alert_history' =
          IF alert'[j] # None /\ pc'[j] = "gate"
          THEN _record_alert(Get(alert'[j]), alert_history, now)
          ELSE alert_history
    /\ UNCHANGED <<now, config_vars, returned, cycles, tests,
                   outbox, accepted, suppressed, ev, ta, pa, main>>

(* for sensor_name, value in sensors.items(): the two skips, then          *)
(* _check_sensor_threshold and `if alert`.  Past the skips, a missing      *)
(* threshold set is a KeyError and a comparison with None a TypeError,     *)
(* which leave check_thresholds                                            *)
Evaluate(j) ==
    /\ pc[j] = "iter"
    /\ idx[j] <= Len(SensorKeys)
    /\ \E r \in Readings :
        LET sensor_name == SensorKeys[idx[j]] IN
        IF Skipped(sensor_name, r)
        THEN /\ value' = [value EXCEPT ![j] = r]
             /\ Continue(j)
             /\ UNCHANGED <<alert, alerts>>
        ELSE IF r = None \/ sensor_name \notin DOMAIN thresholds
        THEN Leave(j, "raised")
        ELSE LET a == _check_sensor_threshold(
                         sensor_name, Get(r), thresholds[sensor_name], now)
             IN /\ value' = [value EXCEPT ![j] = r]
                /\ alert' = [alert EXCEPT ![j] = a]
                /\ UNCHANGED alerts
                /\ IF a = None
                   THEN Continue(j)
                   ELSE /\ pc' = [pc EXCEPT ![j] = "gate"]
                        /\ UNCHANGED idx
    /\ UNCHANGED <<now, alert_history, config_vars, returned, cycles, tests,
                   outbox, accepted, suppressed, ev, ta, pa, main>>

(* variant: a suppressed alert refreshes last_sent *)
GateRefresh(j) ==
    /\ pc[j] = "gate"
    /\ LET a == Get(alert[j]) IN
        IF _is_in_cooldown(a, alert_history, now)
        THEN /\ Continue(j)
             /\ alert_history' = _record_alert(a, alert_history, now)
             /\ suppressed' = suppressed (+) SetToBag(
                    {[sensor |-> a.sensor, level |-> a.level, at |-> now]})
        ELSE /\ pc' = [pc EXCEPT ![j] = "accept"]
             /\ UNCHANGED <<idx, suppressed, alert_history>>
    /\ UNCHANGED <<now, config_vars, value, alert, alerts,
                   returned, cycles, tests, outbox, accepted, ev, ta, pa, main>>

(* if not self._is_in_cooldown(alert) *)
Gate(j) ==
    /\ pc[j] = "gate"
    /\ LET a == Get(alert[j]) IN
        IF _is_in_cooldown(a, alert_history, now)
        THEN /\ Continue(j)
             /\ suppressed' = suppressed (+) SetToBag(
                    {[sensor |-> a.sensor, level |-> a.level, at |-> now]})
        ELSE /\ pc' = [pc EXCEPT ![j] = "accept"]
             /\ UNCHANGED <<idx, suppressed>>
    /\ UNCHANGED <<now, alert_history, config_vars, value, alert, alerts,
                   returned, cycles, tests, outbox, accepted, ev, ta, pa, main>>

(* variant: every accepted alert is dispatched *)
ShouldNotifyAny(a) == a.level \in {"critical", "warning"}

(* if alert['level'] == 'critical' *)
ShouldNotify(a) == a.level = "critical"

(* alerts.append(alert); self._record_alert(alert); then the dispatch      *)
Accept(j) ==
    /\ pc[j] = "accept"
    /\ LET a == Get(alert[j]) IN
        /\ alerts' = [alerts EXCEPT ![j] = Append(alerts[j], a)]
        /\ alert_history' = _record_alert(a, alert_history, now)
        /\ accepted' = accepted (+) SetToBag(
                {[sensor |-> a.sensor, level |-> a.level, at |-> now]})
        /\ IF ShouldNotify(a)
           THEN /\ pc' = [pc EXCEPT ![j] = "notify"]
                /\ UNCHANGED idx
           ELSE Continue(j)
    /\ UNCHANGED <<now, config_vars, value, alert, returned, cycles, tests,
                   outbox, suppressed, ev, ta, pa, main>>

(* the attempts of one _send_notifications call, as a bag *)
RECURSIVE Deliveries(_)
Deliveries(attempts) ==
    IF attempts = <<>> THEN EmptyBag
    ELSE SetToBag({[channel |-> Head(attempts).channel,
                    sensor |-> Head(attempts).alert.sensor,
                    level |-> Head(attempts).alert.level,
                    ok |-> Head(attempts).ok]})
         (+) Deliveries(Tail(attempts))

(* variant: when no channel delivered, the alert's entry is taken out of   *)
(* alert_history again, so that the next cycle sends it                    *)
NotifyOrForget(j) ==
    /\ pc[j] = "notify"
    /\ \E email_outcome \in Outcomes, sms_outcome \in Outcomes :
        LET a == Get(alert[j])
            res == _send_notifications(a,
                        email_client /\ email_to, sms_client /\ sms_to,
                        email_outcome, sms_outcome)
            delivered == \E i \in 1..Len(res.attempts) : res.attempts[i].ok
        IN /\ outbox' = outbox (+) Deliveries(res.attempts)
           /\ alert_history' =
                IF delivered THEN alert_history
                ELSE [k \in DOMAIN alert_history \ {alert_key(a)} |->
                        alert_history[k]]
           /\ Continue(j)
           /\ UNCHANGED <<value, alert, alerts>>
    /\ UNCHANGED <<now, config_vars, returned, cycles, tests, accepted,
                   suppressed, ev, ta, pa, main>>

(* self._send_notifications(alert); an exception it lets through leaves    *)
(* check_thresholds                                                        *)
Notify(j) ==
    /\ pc[j] = "notify"
    /\ \E email_outcome \in Outcomes, sms_outcome \in Outcomes :
        LET res == _send_notifications(Get(alert[j]),
                        email_client /\ email_to, sms_client /\ sms_to,
                        email_outcome, sms_outcome)
        IN /\ outbox' = outbox (+) Deliveries(res.attempts)
           /\ IF res.raised
              THEN Leave(j, "raised")
              ELSE /\ Continue(j)
                   /\ UNCHANGED <<value, alert, alerts>>
    /\ UNCHANGED <<now, alert_history, config_vars, returned, cycles,
                   tests, accepted, suppressed, ev, ta, pa, main>>

(* return alerts *)
Return(j) ==
    /\ pc[j] = "iter"
    /\ idx[j] > Len(SensorKeys)
    /\ returned' = Some(alerts[j])
    /\ Leave(j, "idle")
    /\ UNCHANGED <<now, alert_history, config_vars, cycles, tests,
                   outbox, accepted, suppressed, ev, ta, pa, main>>

(* the alert test_notifications builds *)
test_alert(t) ==
    [timestamp |-> t, level |-> "info", sensor |-> "system", value |-> 0,
     threshold |-> 0,
     message |-> Message("", "system", "This is a test alert", 0)]

(* test_notifications, called while no cycle is running *)
TestNotifications ==
    /\ tests < MaxTests
    /\ \A k \in Jobs : Resting(k)
    /\ tests' = tests + 1
    /\ \E email_outcome \in Outcomes, sms_outcome \in Outcomes :
        LET res == _send_notifications(test_alert(now),
                        email_client /\ email_to, sms_client /\ sms_to,
                        email_outcome, sms_outcome)
        IN outbox' = outbox (+) Deliveries(res.attempts)
    /\ UNCHANGED <<now, alert_history, config_vars, pc, idx, value, alert,
                   alerts, returned, cycles, accepted, suppressed, ev, ta, pa, main>>

(* time passes *)
Tick ==
    /\ \E d \in TickSteps :
        /\ now + d <= MaxTime
        /\ now' = now + d
    /\ UNCHANGED <<alert_history, config_vars, pc, idx, value, alert, alerts,
                   returned, cycles, tests, outbox, accepted, suppressed, ev, ta, pa, main>>

Step(j) ==
    \/ Evaluate(j)
    \/ Gate(j)
    \/ Accept(j)
    \/ Notify(j)
    \/ Return(j)

(* the service of core/main.py with its single periodic driver *)
Next ==
    \/ Tick
    \/ \E j \in Jobs : StartCycle(j)
    \/ \E j \in Jobs : Step(j)

Spec == Init /\ [][Next]_vars

(* the scheduler's thread pool: the two jobs may run at the same time *)
NextOverlap ==
    \/ Tick
    \/ \E j \in Jobs : StartJob(j)
    \/ \E j \in Jobs : Step(j)

SpecOverlap == Init /\ [][NextOverlap]_vars

(* every public operation of AlertManager, one call at a time:             *)
(* check_thresholds and test_notifications                                 *)
NextApi ==
    \/ Tick
    \/ TestNotifications
    \/ \E j \in Jobs : StartApiCycle(j)
    \/ \E j \in Jobs : Step(j)

SpecApi == Init /\ [][NextApi]_vars

-----------------------------------------------------------------------------
(* A single call of _check_sensor_threshold on any sensor and value *)

MinValue == 0 - 10

InitEval ==
    /\ InitManager
    /\ \E s \in DOMAIN thresholds, v \in MinValue..MaxValue :
        ev = [sensor |-> s, value |-> v, result |-> None, done |-> FALSE]
    /\ ta = NoTrend
    /\ pa = NoCorr
    /\ main = NoAutomation

CheckSensorThreshold ==
    /\ ~ev.done
    /\ ev' = [ev EXCEPT
                !.result = _check_sensor_threshold(
                               ev.sensor, ev.value, thresholds[ev.sensor], now),
                !.done = TRUE]
    /\ UNCHANGED <<now, alert_history, config_vars, pc, idx, value, alert,
                   alerts, returned, cycles, tests, outbox, accepted,
                   suppressed, ta, pa, main>>

NextEval == CheckSensorThreshold

SpecEval == InitEval /\ [][NextEval]_vars

-----------------------------------------------------------------------------
(* Steps of check_thresholds, as seen from outside the actions *)

GateStep(j) == pc[j] = "gate" /\ pc'[j] # "gate"
AcceptStep(j) == pc[j] = "accept" /\ pc'[j] # "accept"
NotifyStep(j) == pc[j] = "notify" /\ pc'[j] # "notify"
ReturnStep(j) == pc[j] = "iter" /\ pc'[j] = "idle"
EvaluateStep(j) ==
    /\ pc[j] = "iter"
    /\ idx[j] <= Len(SensorKeys)
    /\ <<pc[j], idx[j]>> # <<pc'[j], idx'[j]>>

(* the logged alerts of one (sensor, level) *)
SameKey(e, f) == e.sensor = f.sensor /\ e.level = f.level
Logged(a, t) == [sensor |-> a.sensor, level |-> a.level, at |-> t]

-----------------------------------------------------------------------------
(* C1: the cooldown gate.  A freshly evaluated alert is suppressed exactly  *)
(* when alert_history holds an entry for its key that is less than 30       *)
(* minutes old, and a suppressed alert is dropped: nothing is recorded,     *)
(* listed or sent.  Otherwise (no entry, or an entry 30 minutes old or      *)
(* older) it is accepted: appended to the list, alert_history[key] is       *)
(* overwritten with now and no other key changes, and the list is what      *)
(* check_thresholds returns.                                                *)
C1_CooldownGate ==
    [][\A j \in Jobs :
        /\ GateStep(j) =>
            LET k == alert_key(Get(alert[j]))
                recent == /\ k \in DOMAIN alert_history
                          /\ now - alert_history[k] < 30
            IN IF recent
               THEN /\ pc'[j] = "iter"
                    /\ idx'[j] = idx[j] + 1
                    /\ alerts'[j] = alerts[j]
                    /\ alert_history' = alert_history
                    /\ outbox' = outbox
                    /\ accepted' = accepted
               ELSE pc'[j] = "accept"
        /\ AcceptStep(j) =>
            LET a == Get(alert[j])
                k == alert_key(a)
            IN /\ alerts'[j] = Append(alerts[j], a)
               /\ DOMAIN alert_history' = DOMAIN alert_history \cup {k}
               /\ alert_history'[k] = now
               /\ \A o \in DOMAIN alert_history \ {k} :
                    alert_history'[o] = alert_history[o]
        /\ ReturnStep(j) => returned' = Some(alerts[j])
      ]_vars

(* an alert accepted exactly 30 minutes after the previous one of its key,  *)
(* returned to the caller, with one of the same key suppressed in between   *)
C1_Witness ==
    /\ returned # None
    /\ \E i \in 1..Len(Get(returned)) :
        LET a == Get(returned)[i] IN
        /\ alert_history[alert_key(a)] = a.timestamp
        /\ BagIn(Logged(a, a.timestamp), accepted)
        /\ BagIn(Logged(a, a.timestamp - 30), accepted)
        /\ BagIn(Logged(a, a.timestamp - 15), suppressed)

-----------------------------------------------------------------------------
(* C2: cooldown idempotence.  Of the alerts of one (sensor, level), any two *)
(* accepted ones are at least 30 minutes apart, so the same breaching       *)
(* reading issued twice within the window is accepted once; and one is      *)
(* dropped only while the latest acceptance of its key is less than 30      *)
(* minutes old, so the reading issued again once the window has elapsed is  *)
(* accepted a second time.                                                  *)
C2_CooldownIdempotence ==
    /\ \A e \in BagToSet(accepted) :
        /\ CopiesIn(e, accepted) = 1
        /\ \A f \in BagToSet(accepted) :
            SameKey(e, f) /\ e.at < f.at => f.at - e.at >= 30
    /\ \A d \in BagToSet(suppressed) :
        \E e \in BagToSet(accepted) :
            /\ SameKey(d, e)
            /\ e.at <= d.at
            /\ d.at - e.at < 30

(* the same reading three times: accepted, dropped 15 minutes later, and    *)
(* accepted again once 30 minutes have passed since the first               *)
C2_Witness ==
    /\ cycles = 3
    /\ \A j \in Jobs : pc[j] = "idle"
    /\ \E e \in BagToSet(accepted), d \in BagToSet(suppressed),
          f \in BagToSet(accepted) :
        /\ SameKey(e, d) /\ SameKey(e, f)
        /\ e.at < d.at /\ d.at < f.at
        /\ f.at - e.at >= 30
        /\ returned # None
        /\ \E i \in 1..Len(Get(returned)) :
            /\ Get(returned)[i].sensor = f.sensor
            /\ Get(returned)[i].level = f.level

-----------------------------------------------------------------------------
(* C3: when two cycles overlap on the same AlertManager and both evaluate   *)
(* the same (sensor, level) alert, at most one of them accepts it: no key   *)
(* is accepted twice within 30 minutes, and within the first cooldown       *)
(* window at most one notification per channel is delivered for a key.      *)
C3_AtomicPerKey ==
    /\ \A e \in BagToSet(accepted) :
        /\ CopiesIn(e, accepted) = 1
        /\ \A f \in BagToSet(accepted) :
            SameKey(e, f) /\ e.at < f.at => f.at - e.at >= 30
    /\ now < 30 =>
        \A o \in BagToSet(outbox) : o.ok => CopiesIn(o, outbox) = 1

-----------------------------------------------------------------------------
(* C4: _check_sensor_threshold is a first-match classifier with strict      *)
(* comparisons: critical "dangerously low" below critical_low, else         *)
(* critical "dangerously high" above critical_high, else warning "low"      *)
(* below warning_low, else warning "high" above warning_high, else no       *)
(* alert; a bound absent from the set skips its branch.  A value from       *)
(* warning_low to warning_high, the bounds included, or above warning_low   *)
(* where the set has no upper bounds, yields no alert.                      *)
Below(s, bound, v) ==
    bound \in DOMAIN thresholds[s] /\ v < thresholds[s][bound]

Above(s, bound, v) ==
    bound \in DOMAIN thresholds[s] /\ v > thresholds[s][bound]

Is(r, level, s, v, bound, prefix, text) ==
    /\ r # None
    /\ Get(r).level = level
    /\ Get(r).sensor = s
    /\ Get(r).value = v
    /\ Get(r).threshold = thresholds[s][bound]
    /\ Get(r).message = <<prefix, s, text, v>>

C4_FirstMatch ==
    ev.done =>
        LET s == ev.sensor
            v == ev.value
            r == ev.result
        IN /\ IF Below(s, "critical_low", v)
              THEN Is(r, "critical", s, v, "critical_low",
                      "CRITICAL", "is dangerously low")
              ELSE IF Above(s, "critical_high", v)
              THEN Is(r, "critical", s, v, "critical_high",
                      "CRITICAL", "is dangerously high")
              ELSE IF Below(s, "warning_low", v)
              THEN Is(r, "warning", s, v, "warning_low",
                      "WARNING", "is low")
              ELSE IF Above(s, "warning_high", v)
              THEN Is(r, "warning", s, v, "warning_high",
                      "WARNING", "is high")
              ELSE r = None
           /\ ( /\ "warning_low" \in DOMAIN thresholds[s]
                    => v >= thresholds[s]["warning_low"]
                /\ "warning_high" \in DOMAIN thresholds[s]
                    => v <= thresholds[s]["warning_high"] )
              => r = None

(* a value equal to critical_low is a warning, not a critical alert *)
C4_Witness ==
    /\ ev.done
    /\ ev.value = thresholds[ev.sensor]["critical_low"]
    /\ ev.result # None
    /\ Get(ev.result).level = "warning"
    /\ Get(ev.result).threshold = thresholds[ev.sensor]["warning_low"]

-----------------------------------------------------------------------------
(* C5: the cooldown key is (sensor, level).  An alert is dropped only when  *)
(* an alert of the same sensor and the same level was accepted less than    *)
(* 30 minutes before: an acceptance of another level of that sensor, or of  *)
(* another sensor, never suppresses it.                                     *)
C5_KeyIsSensorAndLevel ==
    [][\A j \in Jobs :
        GateStep(j) =>
            LET a == Get(alert[j])
                own == {e \in BagToSet(accepted) :
                            /\ e.sensor = a.sensor
                            /\ e.level = a.level
                            /\ now - e.at < 30}
            IN own = {} => pc'[j] = "accept" /\ suppressed' = suppressed
      ]_vars

(* a sensor's warning, then its critical alert 15 minutes later, and in     *)
(* the warning's window a warning of another sensor: all three accepted     *)
C5_Witness ==
    \E w \in BagToSet(accepted), c \in BagToSet(accepted),
       o \in BagToSet(accepted) :
        /\ w.level = "warning" /\ c.level = "critical"
        /\ c.sensor = w.sensor
        /\ c.at - w.at = 15
        /\ o.sensor # w.sensor
        /\ o.at >= w.at /\ o.at - w.at < 30

-----------------------------------------------------------------------------
(* the send attempts a step adds to the outbox *)
Sent == outbox' (-) outbox

(* the attempts in bag b on one channel for one (sensor, level) *)
Attempts(b, channel, a) ==
    CopiesIn([channel |-> channel, sensor |-> a.sensor, level |-> a.level,
              ok |-> TRUE], b)
    + CopiesIn([channel |-> channel, sensor |-> a.sensor, level |-> a.level,
                ok |-> FALSE], b)

(* job j is dispatching a critical alert that the gate accepted *)
DispatchesAccepted(j) ==
    /\ pc[j] = "notify"
    /\ Get(alert[j]).level = "critical"
    /\ \E e \in BagToSet(accepted) :
        /\ SameKey(e, Get(alert[j]))
        /\ e.at = alert_history[alert_key(Get(alert[j]))]
    /\ \A o \in BagToSet(Sent) : SameKey(o, Get(alert[j]))

(* C6 as stated: every send attempt is made for a critical alert that the   *)
(* gate accepted, by the cycle that accepted it; none is made for a         *)
(* warning, for a suppressed alert or for an alert that did not pass        *)
(* through the gate.                                                        *)
C6_OnlyAcceptedCritical ==
    [][outbox' # outbox => \E j \in Jobs : DispatchesAccepted(j)]_vars

(* C6: within check_thresholds the dispatcher is invoked only for accepted  *)
(* critical alerts; the one other invocation is test_notifications, which   *)
(* dispatches its 'info' alert of sensor 'system' without the gate.         *)
C6_OnlyAcceptedCriticalOrTest ==
    [][outbox' # outbox =>
        \/ \E j \in Jobs : DispatchesAccepted(j)
        \/ /\ tests' = tests + 1
           /\ \A j \in Jobs : pc'[j] = pc[j]
           /\ \A o \in BagToSet(Sent) :
                o.sensor = "system" /\ o.level = "info"
      ]_vars

(* a test notification and a critical alert's notification were sent, a     *)
(* warning was accepted and an alert was suppressed                         *)
C6_Witness ==
    /\ \E o \in BagToSet(outbox) : o.sensor = "system"
    /\ \E o \in BagToSet(outbox) : o.level = "critical"
    /\ \E e \in BagToSet(accepted) : e.level = "warning"
    /\ suppressed # EmptyBag

-----------------------------------------------------------------------------
(* C7: per-channel failure isolation.  The dispatch of an accepted critical *)
(* alert attempts SMS whenever SMS is configured, also when the email       *)
(* attempt failed; whatever the outcomes, no exception leaves               *)
(* check_thresholds: the loop goes on to the next sensor with its list      *)
(* intact, and the cycle returns that list.                                 *)
C7_ChannelIsolation ==
    [][\A j \in Jobs :
        /\ pc'[j] # "raised"
        /\ NotifyStep(j) =>
            LET a == Get(alert[j])
                failed == [channel |-> "email", sensor |-> a.sensor,
                           level |-> a.level, ok |-> FALSE]
            IN /\ pc'[j] = "iter"
               /\ idx'[j] = idx[j] + 1
               /\ alerts'[j] = alerts[j]
               /\ sms_client /\ sms_to =>
                    Attempts(outbox', "sms", a) = Attempts(outbox, "sms", a) + 1
               /\ email_client /\ email_to =>
                    Attempts(outbox', "email", a)
                        = Attempts(outbox, "email", a) + 1
               /\ BagIn(failed, Sent) /\ sms_client /\ sms_to =>
                    \E o \in BagToSet(Sent) : o.channel = "sms"
        /\ ReturnStep(j) => returned' = Some(alerts[j])
      ]_vars

(* the email of a critical alert failed, its SMS was attempted, the next    *)
(* sensors were evaluated and the cycle returned both alerts                *)
C7_Witness ==
    /\ returned # None
    /\ Len(Get(returned)) = 2
    /\ Get(returned)[1].level = "critical"
    /\ Get(returned)[2].sensor # Get(returned)[1].sensor
    /\ \E o \in BagToSet(outbox), q \in BagToSet(outbox) :
        /\ o.channel = "email" /\ ~o.ok
        /\ q.channel = "sms"
        /\ SameKey(o, Get(returned)[1]) /\ SameKey(q, o)

-----------------------------------------------------------------------------
(* C8: the gate commits before delivery.  When an accepted critical alert   *)
(* goes to the dispatcher it is already in alert_history and in the list    *)
(* to return, and no attempt has been made; the dispatch, whatever its      *)
(* outcomes, changes neither; so an alert of that key evaluated within 30   *)
(* minutes of the acceptance is suppressed, delivered or not.               *)
C8_GateCommitsFirst ==
    [][\A j \in Jobs :
        /\ AcceptStep(j) /\ pc'[j] = "notify" =>
            /\ outbox' = outbox
            /\ alert_history'[alert_key(Get(alert[j]))] = now
            /\ alerts'[j][Len(alerts'[j])] = Get(alert[j])
        /\ NotifyStep(j) =>
            /\ alert_history' = alert_history
            /\ alerts'[j] = alerts[j]
            /\ accepted' = accepted
        /\ GateStep(j) =>
            LET a == Get(alert[j]) IN
            (\E e \in BagToSet(accepted) :
                SameKey(e, a) /\ e.at <= now /\ now - e.at < 30)
            => /\ pc'[j] = "iter"
               /\ suppressed' = suppressed (+) SetToBag({Logged(a, now)})
               /\ outbox' = outbox
      ]_vars

(* every attempt for an accepted critical alert failed, and the same alert  *)
(* was suppressed later in the window                                       *)
C8_Witness ==
    \E e \in BagToSet(accepted), d \in BagToSet(suppressed) :
        /\ e.level = "critical"
        /\ SameKey(e, d)
        /\ e.at < d.at
        /\ \E o \in BagToSet(outbox) : SameKey(o, e)
        /\ \A o \in BagToSet(outbox) : SameKey(o, e) => ~o.ok

-----------------------------------------------------------------------------
(* the acceptances in bag b of one (sensor, level) *)
Acceptances(b, a) ==
    LET own == {e \in BagToSet(b) : SameKey(e, a)}
    IN BagCardinality([e \in own |-> b[e]])

(* C9: delivery is at most once and never retried.  On each channel the     *)
(* attempts made for a (sensor, level), failed ones included, never         *)
(* outnumber its acceptances; an attempt is made only by the dispatch that  *)
(* follows the acceptance, one per channel; no other step of this or a      *)
(* later cycle sends.                                                       *)
C9_AtMostOnce ==
    [][\A o \in BagToSet(outbox') :
        LET before == Attempts(outbox, o.channel, o)
            after == Attempts(outbox', o.channel, o)
        IN /\ after <= Acceptances(accepted', o)
           /\ after - before <= 1
           /\ after > before =>
                \E j \in Jobs : NotifyStep(j) /\ SameKey(Get(alert[j]), o)
      ]_vars

(* an attempt failed, two more cycles saw the same alert, and the channel   *)
(* still has that one attempt                                               *)
C9_Witness ==
    /\ cycles = 3
    /\ \A j \in Jobs : pc[j] = "idle"
    /\ \E o \in BagToSet(outbox) :
        /\ ~o.ok
        /\ Attempts(outbox, o.channel, o) = 1
        /\ Acceptances(accepted, o) = 1
        /\ Acceptances(suppressed, o) = 2

-----------------------------------------------------------------------------
(* C10: a null reading, or a sensor without a threshold set, is skipped and *)
(* nothing else: the loop moves to the next sensor, no alert is listed,     *)
(* accepted or dropped, alert_history is untouched and nothing is sent;     *)
(* and no cycle fails.                                                      *)
C10_NullReadingSkipped ==
    [][\A j \in Jobs :
        /\ pc'[j] # "raised"
        /\ ( /\ EvaluateStep(j)
             /\ \/ value'[j] = None
                \/ SensorKeys[idx[j]] \notin DOMAIN thresholds )
           => /\ pc'[j] = "iter"
              /\ idx'[j] = idx[j] + 1
              /\ alerts'[j] = alerts[j]
              /\ UNCHANGED <<alert_history, outbox, accepted, suppressed,
                             returned>>
      ]_vars

(* the first cycle, given no reading of the first sensor, returned just     *)
(* the alert of the second one                                              *)
C10_Witness ==
    /\ cycles = 1
    /\ returned # None
    /\ Len(Get(returned)) = 1
    /\ Get(returned)[1].sensor = SensorKeys[2]
    /\ \A e \in BagToSet(accepted) : e.sensor # SensorKeys[1]
    /\ suppressed = EmptyBag

-----------------------------------------------------------------------------
(* TrendAnalyzer (src/src/hydroponics/analysis/trend_analyzer.py).          *)
(*                                                                          *)
(* Values are in tenths, timestamps in whole hours.  A float is modelled by *)
(* the exact fraction it approximates: a rate is [num, den] with den > 0,   *)
(* in tenths per hour, so that 0.05 per hour is the fraction 1/2 and 0.01   *)
(* per hour is 1/10.  Hours to a threshold are in tenths of an hour once    *)
(* rounded.                                                                 *)

Abs(x) == IF x < 0 THEN 0 - x ELSE x

RECURSIVE Sum(_)
Sum(seq) == IF seq = <<>> THEN 0 ELSE Head(seq) + Sum(Tail(seq))

(* round(p / q) for q > 0, a tie going to the even neighbour *)
Round(p, q) ==
    LET f == p \div q
        r == 2 * (p - f * q)
    IN IF r < q THEN f
       ELSE IF r > q THEN f + 1
       ELSE IF f % 2 = 0 THEN f ELSE f + 1

(* dict.get(key, default) *)
dict_get(d, key, default) == IF key \in DOMAIN d THEN d[key] ELSE default

Rate(num, den) == [num |-> num, den |-> den]

(* the list of parameters of analyze_all_trends *)
parameters == <<"ph", "temperature", "do">>

(* the thresholds table of _assess_concern, in tenths *)
trend_thresholds ==
    [ ph |->
        [critical_low |-> 60, warning_low |-> 65, optimal_low |-> 68,
         optimal_high |-> 75, warning_high |-> 80, critical_high |-> 85],
      temperature |->
        [critical_low |-> 150, warning_low |-> 180, optimal_low |-> 200,
         optimal_high |-> 240, warning_high |-> 260, critical_high |-> 280],
      do |->
        [critical_low |-> 40, warning_low |-> 60, optimal_low |-> 70,
         optimal_high |-> 100, warning_high |-> 120, critical_high |-> 150] ]

(* if len(data) < 5 *)
min_points == 5

(* variant: no dead zone, 0.01 is the only limit *)
DirectionNoDeadZone(slope) ==
    IF 10 * Abs(slope.num) < slope.den THEN "stable"
    ELSE IF slope.num > 0 THEN "rising"
    ELSE "falling"

(* the direction tests of _calculate_trend on the slope *)
Direction(slope) ==
    IF 10 * Abs(slope.num) < slope.den THEN "stable"
    ELSE IF 2 * slope.num > slope.den THEN "rising"
    ELSE IF 2 * slope.num < 0 - slope.den THEN "falling"
    ELSE "stable"

(* variant: the slope without the (sum x)^2 term of the denominator *)
_calculate_trend_uncentred(values, timestamps) ==
    IF Len(values) < 2
    THEN [direction |-> "stable", slope |-> Rate(0, 1)]
    ELSE
    LET n == Len(values)
        hours == [i \in 1..n |-> timestamps[i] - timestamps[1]]
        sum_x == Sum(hours)
        sum_y == Sum(values)
        sum_xy == Sum([i \in 1..n |-> hours[i] * values[i]])
        sum_x2 == Sum([i \in 1..n |-> hours[i] * hours[i]])
        d == n * sum_x2
        slope == IF d = 0 THEN Rate(0, 1)
                 ELSE Rate(n * sum_xy - sum_x * sum_y, d)
    IN [direction |-> Direction(slope), slope |-> slope]

(* variant: with a zero denominator, the slope is the last value minus the *)
(* first                                                                    *)
_calculate_trend_endpoints(values, timestamps) ==
    IF Len(values) < 2
    THEN [direction |-> "stable", slope |-> Rate(0, 1)]
    ELSE
    LET n == Len(values)
        hours == [i \in 1..n |-> timestamps[i] - timestamps[1]]
        sum_x == Sum(hours)
        sum_y == Sum(values)
        sum_xy == Sum([i \in 1..n |-> hours[i] * values[i]])
        sum_x2 == Sum([i \in 1..n |-> hours[i] * hours[i]])
        d == n * sum_x2 - sum_x * sum_x
        slope == IF d = 0 THEN Rate(values[n] - values[1], 1)
                 ELSE Rate(n * sum_xy - sum_x * sum_y, d)
    IN [direction |-> Direction(slope), slope |-> slope]

(* _calculate_trend: least-squares slope of the values over the hours since *)
(* the first timestamp                                                      *)
_calculate_trend(values, timestamps) ==
    IF Len(values) < 2
    THEN [direction |-> "stable", slope |-> Rate(0, 1)]
    ELSE
    LET n == Len(values)
        hours == [i \in 1..n |-> timestamps[i] - timestamps[1]]
        sum_x == Sum(hours)
        sum_y == Sum(values)
        sum_xy == Sum([i \in 1..n |-> hours[i] * values[i]])
        sum_x2 == Sum([i \in 1..n |-> hours[i] * hours[i]])
        d == n * sum_x2 - sum_x * sum_x
        \* d >= 0 whatever the hours are (Cauchy-Schwarz)
        slope == IF d = 0 THEN Rate(0, 1)
                 ELSE Rate(n * sum_xy - sum_x * sum_y, d)
    IN [direction |-> Direction(slope), slope |-> slope]

(* _calculate_volatility: the coefficient of variation stdev / mean * 100   *)
(* against 2 and 5, compared as squares:                                    *)
(*   stdev^2 = (n * sum(y^2) - sum(y)^2) / (n * (n - 1)), mean = sum(y) / n *)
_calculate_volatility(values) ==
    IF Len(values) < 3 THEN "unknown"
    ELSE
    LET n == Len(values)
        sum_y == Sum(values)
        sum_y2 == Sum([i \in 1..n |-> values[i] * values[i]])
        var_num == n * sum_y2 - sum_y * sum_y
        \* cv < c, for a positive mean: 10000 * n * var_num < c^2 * (n-1) * sum_y^2
        cv_below(c) ==
            IF sum_y = 0 THEN 0 < c         \* cv = 0
            ELSE IF sum_y < 0 THEN 0 < c    \* cv <= 0
            ELSE 10000 * n * var_num < c * c * (n - 1) * sum_y * sum_y
    IN IF cv_below(2) THEN "stable"
       ELSE IF cv_below(5) THEN "moderate"
       ELSE "volatile"

(* _predict_future: the value after `hours` at the present rate, in         *)
(* hundredths                                                               *)
_predict_future(parameter, current, rate, hours) ==
    [hours_ahead |-> hours,
     predicted_value |->
        Round(10 * (current * rate.den + hours * rate.num), rate.den),
     confidence |-> IF 10 * Abs(rate.num) > rate.den THEN "high" ELSE "low"]

(* hours to a threshold: distance / abs(rate), a fraction of hours *)
HoursTo(distance, rate) == Rate(distance * rate.den, Abs(rate.num))

(* variant: <= for < *)
WithinInclusive(h, limit) ==
    /\ h # None
    /\ Get(h).num # 0
    /\ Get(h).num <= limit * Get(h).den

(* `if h and h < limit`: h is neither None nor zero, and below the limit *)
Within(h, limit) ==
    /\ h # None
    /\ Get(h).num # 0
    /\ Get(h).num < limit * Get(h).den

(* round(h, 1), in tenths of an hour *)
Round1(h) == Round(10 * h.num, h.den)

(* variant: the ends of the optimal band are outside it *)
InOptimalBandOpen(thresh, current) ==
    thresh.optimal_low < current /\ current < thresh.optimal_high

(* thresh['optimal_low'] <= current <= thresh['optimal_high'] *)
InOptimalBand(thresh, current) ==
    thresh.optimal_low <= current /\ current <= thresh.optimal_high

(* _assess_concern *)
_assess_concern(parameter, current, trend, rate, prediction) ==
    IF parameter \notin DOMAIN trend_thresholds
    THEN [level |-> "none", recommendation |-> "No thresholds defined"]
    ELSE
    LET thresh == trend_thresholds[parameter]
        concern == [level |-> "none",
                    recommendation |-> "Continue monitoring",
                    time_to_threshold |-> None]
    IN IF trend = "falling" /\ rate.num < 0
       THEN LET hours_to_warning ==
                    IF current > thresh.warning_low
                    THEN Some(HoursTo(current - thresh.warning_low, rate))
                    ELSE None
                hours_to_critical ==
                    IF current > thresh.critical_low
                    THEN Some(HoursTo(current - thresh.critical_low, rate))
                    ELSE None
            IN IF Within(hours_to_critical, 12)
               THEN [level |-> "critical",
                     time_to_threshold |-> Some(Round1(Get(hours_to_critical))),
                     recommendation |-> "URGENT: dropping fast"]
               ELSE IF Within(hours_to_warning, 24)
               THEN [level |-> "warning",
                     time_to_threshold |-> Some(Round1(Get(hours_to_warning))),
                     recommendation |-> "declining"]
               ELSE IF current > thresh.optimal_low
               THEN [level |-> "watch",
                     recommendation |-> "trending down"]
               ELSE concern
       ELSE IF trend = "rising" /\ rate.num > 0
       THEN LET hours_to_warning ==
                    IF current < thresh.warning_high
                    THEN Some(HoursTo(thresh.warning_high - current, rate))
                    ELSE None
                hours_to_critical ==
                    IF current < thresh.critical_high
                    THEN Some(HoursTo(thresh.critical_high - current, rate))
                    ELSE None
            IN IF Within(hours_to_critical, 12)
               THEN [level |-> "critical",
                     time_to_threshold |-> Some(Round1(Get(hours_to_critical))),
                     recommendation |-> "URGENT: rising fast"]
               ELSE IF Within(hours_to_warning, 24)
               THEN [level |-> "warning",
                     time_to_threshold |-> Some(Round1(Get(hours_to_warning))),
                     recommendation |-> "increasing"]
               ELSE IF current < thresh.optimal_high
               THEN [level |-> "watch",
                     recommendation |-> "trending up"]
               ELSE concern
       ELSE IF InOptimalBand(thresh, current)
       THEN [level |-> "none",
             recommendation |-> "stable in optimal range"]
       ELSE [level |-> "watch",
             recommendation |-> "outside optimal but stable"]

(* _get_historical_data: the rows of the query in time order, or [] when    *)
(* the query raises                                                         *)
_get_historical_data(rows, query_ok) == IF query_ok THEN rows ELSE <<>>

(* data[-10:] *)
Last10(data) ==
    IF Len(data) <= 10 THEN data ELSE SubSeq(data, Len(data) - 9, Len(data))

(* variant: only an empty series is insufficient (`if not data`) *)
InsufficientEmpty(data) == Len(data) = 0

(* if len(data) < 5 *)
Insufficient(data) == Len(data) < min_points

(* the dict analyze_parameter_trend returns for too short a series *)
insufficient_data ==
    [trend |-> "insufficient_data",
     concern_level |-> "none",
     recommendation |-> "Need more data points"]

(* the dict analyze_parameter_trend returns otherwise: the prediction, the  *)
(* concern and the result, from the last value, the fit and the volatility  *)
trend_result(parameter, data, current_value, fit, volatility) ==
    LET prediction == _predict_future(parameter, current_value, fit.slope, 24)
        concern == _assess_concern(parameter, current_value, fit.direction,
                                   fit.slope, prediction)
    IN [parameter |-> parameter,
        current_value |-> current_value,
        trend |-> fit.direction,
        rate_of_change |-> fit.slope,
        volatility |-> volatility,
        prediction |-> prediction,
        concern_level |-> concern.level,
        time_to_threshold |-> dict_get(concern, "time_to_threshold", None),
        recommendation |-> concern.recommendation,
        historical_data |-> Last10(data)]

(* analyze_parameter_trend, on the data _get_historical_data returned *)
analyze_parameter_trend(parameter, data) ==
    IF Insufficient(data)
    THEN insufficient_data
    ELSE
    LET values == [i \in 1..Len(data) |-> data[i].value]
        timestamps == [i \in 1..Len(data) |-> data[i].timestamp]
    IN trend_result(parameter, data, values[Len(values)],
                    _calculate_trend(values, timestamps),
                    _calculate_volatility(values))

-----------------------------------------------------------------------------
(* A single call of analyze_parameter_trend on any short series *)

MaxPoints == 6

(* the manager at rest, with no channel configured *)
InitQuiet ==
    /\ InitManager
    /\ ~email_client /\ ~email_to /\ ~sms_client /\ ~sms_to
    /\ ev = NoEval

TrendParameters == {"ph", "temperature", "do", "ec"}

(* values of a series: a base near a threshold of the parameter plus a      *)
(* small step; `ec` has no thresholds                                       *)
Bases(parameter) ==
    IF parameter \in DOMAIN trend_thresholds
    THEN {trend_thresholds[parameter].warning_low - 1,
          trend_thresholds[parameter].optimal_low - 2,
          trend_thresholds[parameter].warning_high - 2}
    ELSE {10}

Deltas == 0..3

(* hours between two readings; 0 puts every reading at one timestamp *)
Spacings == {0, 1}

Rows(base, spacing, ds) ==
    [i \in 1..Len(ds) |->
        [timestamp |-> (i - 1) * spacing, value |-> base + ds[i]]]

InitTrend ==
    /\ InitQuiet
    /\ pa = NoCorr
    /\ main = NoAutomation
    /\ \E parameter \in TrendParameters, spacing \in Spacings,
          n \in 0..MaxPoints, query_ok \in BOOLEAN :
        \E base \in Bases(parameter), ds \in [1..n -> Deltas] :
            ta = [parameter |-> parameter,
                  rows |-> Rows(base, spacing, ds),
                  query_ok |-> query_ok,
                  result |-> None,
                  done |-> FALSE]

AnalyzeParameterTrend ==
    /\ ~ta.done
    /\ ta' = [ta EXCEPT
                !.result = Some(analyze_parameter_trend(ta.parameter,
                                _get_historical_data(ta.rows, ta.query_ok))),
                !.done = TRUE]
    /\ UNCHANGED <<manager_vars, ev, pa, main>>

NextTrend == AnalyzeParameterTrend

SpecTrend == InitTrend /\ [][NextTrend]_vars

-----------------------------------------------------------------------------
(* A single call of _assess_concern on any parameter, value and rate, with  *)
(* the direction _calculate_trend gives that rate                           *)

MaxCurrent == 300
MaxRate == 100
RateDen == 20

InitConcern ==
    /\ InitQuiet
    /\ pa = NoCorr
    /\ main = NoAutomation
    /\ \E parameter \in TrendParameters, current \in 0..MaxCurrent,
          r \in (0 - MaxRate)..MaxRate :
        ta = [parameter |-> parameter,
              current |-> current,
              rate |-> Rate(r, RateDen),
              trend |-> "",
              result |-> None,
              done |-> FALSE]

AssessConcern ==
    /\ ~ta.done
    /\ LET trend == Direction(ta.rate)
           prediction == _predict_future(ta.parameter, ta.current, ta.rate, 24)
       IN ta' = [ta EXCEPT
                    !.trend = trend,
                    !.result = Some(_assess_concern(ta.parameter, ta.current,
                                        trend, ta.rate, prediction)),
                    !.done = TRUE]
    /\ UNCHANGED <<manager_vars, ev, pa, main>>

NextConcern == AssessConcern

SpecConcern == InitConcern /\ [][NextConcern]_vars

(***************************************************************************)
(* ParameterAnalyzer.analyze_correlations_advanced (parameter_analyzer.py)  *)
(* A reading is in tenths of its unit; a dict is a function on the keys it  *)
(* holds; a comparison or a format whose operand is None raises TypeError.  *)
(***************************************************************************)

(* the value of a Python condition: "True", "False", or the exception that  *)
(* evaluating it raised                                                      *)
Bool(b) == IF b THEN "True" ELSE "False"

(* a and b: b is evaluated only when a is true *)
and(a, b) == IF a = "True" THEN b ELSE a

(* x < c, x > c, x >= c and lo <= x <= hi on an Optional reading *)
lt(x, c) == IF x = None THEN "TypeError" ELSE Bool(Get(x) < c)

gt(x, c) == IF x = None THEN "TypeError" ELSE Bool(Get(x) > c)

ge(x, c) == IF x = None THEN "TypeError" ELSE Bool(Get(x) >= c)

between(lo, x, hi) == IF x = None THEN "TypeError" ELSE Bool(lo <= Get(x) /\ Get(x) <= hi)

(* trend.get('trend'), trend.get('concern_level') *)
trend_of(trend) == dict_get(trend, "trend", "")

concern_of(trend) == dict_get(trend, "concern_level", "")

(* min(a, b) of two Optional hours: None when the comparison raises *)
min(a, b) ==
    IF a = None \/ b = None THEN None
    ELSE IF Get(b) < Get(a) THEN b ELSE a

(* the empty analysis built before the patterns are tried *)
analysis ==
    [root_cause |-> None,
     cascading_effects |-> 0,
     intervention_priority |-> <<>>,
     system_state |-> "unknown",
     explanation |-> [text |-> ""],
     predicted_outcome |-> [text |-> ""]]

Returns(a) == [returns |-> a]

Raises(e) == [raises |-> e]

(* PATTERN 1: Biofilter Crash in Progress *)
pattern_biofilter(ph, do, ph_trend, do_trend) ==
    and(lt(ph, 65),
    and(Bool(trend_of(ph_trend) = "falling"),
    and(lt(do, 70),
        Bool(trend_of(do_trend) = "falling"))))

biofilter_collapse(ph_trend, do_trend) ==
    LET ph_hours == dict_get(ph_trend, "time_to_threshold", Some(9990))
        do_hours == dict_get(do_trend, "time_to_threshold", Some(9990))
        critical_hours == min(ph_hours, do_hours)
    IN IF critical_hours = None THEN Raises("TypeError")
       ELSE Returns(
           [analysis EXCEPT
               !.root_cause = Some("Biofilter collapse cascade"),
               !.system_state = "critical_cascade",
               !.cascading_effects = 8,
               !.intervention_priority =
                   <<[order |-> 1, action |-> "IMMEDIATE: Raise pH to 7.0+"],
                     [order |-> 2, action |-> "IMMEDIATE: Maximize aeration"],
                     [order |-> 3, action |-> "Stop feeding for 24-48h"],
                     [order |-> 4, action |-> "Monitor ammonia every 2 hours"]>>,
               !.explanation = [text |-> "CRITICAL SYSTEM FAILURE IN PROGRESS",
                                hours |-> Get(critical_hours)],
               !.predicted_outcome = [text |-> "System failure",
                                      hours |-> Get(critical_hours)]])

(* PATTERN 2: Temperature-Induced Oxygen Crisis *)
pattern_temperature_oxygen(temp, do, temp_trend, do_trend) ==
    and(gt(temp, 250),
    and(Bool(trend_of(temp_trend) = "rising"),
    and(lt(do, 70),
        Bool(trend_of(do_trend) = "falling"))))

temperature_oxygen_cascade(temp, do, temp_trend, do_trend) ==
    LET temp_hours == dict_get(temp_trend, "time_to_threshold", Some(9990))
        do_hours == dict_get(do_trend, "time_to_threshold", Some(9990))
        hours == min(temp_hours, do_hours)
    IN IF hours = None THEN Raises("TypeError")
       ELSE Returns(
           [analysis EXCEPT
               !.root_cause = Some("Temperature rising -> Oxygen capacity falling"),
               !.system_state = "temperature_oxygen_cascade",
               !.cascading_effects = 7,
               !.intervention_priority =
                   <<[order |-> 1, action |-> "Cool water immediately"],
                     [order |-> 2, action |-> "Increase aeration 50%"],
                     [order |-> 3, action |-> "Reduce feeding by 50%"]>>,
               !.explanation = [text |-> "TEMPERATURE-OXYGEN CRISIS DEVELOPING",
                                hours |-> Get(hours)]])

(* PATTERN 3: pH Crash Approaching (Predictive) *)
pattern_ph_warning(ph_trend) ==
    and(Bool(trend_of(ph_trend) = "falling"),
        Bool(concern_of(ph_trend) \in {"warning", "critical"}))

(* the deadline of the preventive action *)
hours_remaining(ph_trend) == dict_get(ph_trend, "time_to_threshold", Some(240))

preventive_action(ph_trend) ==
    LET hours == hours_remaining(ph_trend)
    IN IF hours = None THEN Raises("TypeError")
       ELSE Returns(
           [analysis EXCEPT
               !.root_cause = Some("pH declining - catch it early!"),
               !.system_state = "preventive_action_needed",
               !.intervention_priority =
                   <<[order |-> 1, action |-> "Raise pH within next",
                      hours |-> Round(Get(hours), 10)],
                     [order |-> 2, action |-> "Identify why pH is falling"]>>,
               !.explanation = [text |-> "PREDICTIVE ALERT: pH Crash Approaching",
                                hours |-> Get(hours)]])

(* PATTERN 4: All Parameters Optimal and Stable *)
pattern_optimal_stable(ph, temp, do, ph_trend, temp_trend, do_trend) ==
    and(between(65, ph, 75),
    and(between(180, temp, 240),
    and(ge(do, 60),
    and(Bool(trend_of(ph_trend) = "stable"),
    and(Bool(trend_of(temp_trend) = "stable"),
        Bool(trend_of(do_trend) = "stable"))))))

optimal_stable ==
    Returns([analysis EXCEPT
                !.system_state = "optimal_stable",
                !.explanation = [text |-> "SYSTEM OPERATING OPTIMALLY"]])

analyze_correlations_advanced(readings, trends) ==
    LET ph == dict_get(readings, "ph", Some(70))
        temp == dict_get(readings, "temperature", Some(220))
        do == dict_get(readings, "do", Some(75))
        ph_trend == dict_get(trends, "ph", <<>>)
        temp_trend == dict_get(trends, "temperature", <<>>)
        do_trend == dict_get(trends, "do", <<>>)
        p1 == pattern_biofilter(ph, do, ph_trend, do_trend)
        p2 == pattern_temperature_oxygen(temp, do, temp_trend, do_trend)
        p3 == pattern_ph_warning(ph_trend)
        p4 == pattern_optimal_stable(ph, temp, do, ph_trend, temp_trend, do_trend)
    IN IF p1 = "TypeError" THEN Raises("TypeError")
       ELSE IF p1 = "True" THEN biofilter_collapse(ph_trend, do_trend)
       ELSE IF p2 = "TypeError" THEN Raises("TypeError")
       ELSE IF p2 = "True"
            THEN temperature_oxygen_cascade(temp, do, temp_trend, do_trend)
       ELSE IF p3 = "True" THEN preventive_action(ph_trend)
       ELSE IF p4 = "TypeError" THEN Raises("TypeError")
       ELSE IF p4 = "True" THEN optimal_stable
       ELSE Returns(analysis)

(***************************************************************************)
(* The correlation step alone: get_predictive_analysis (akbs/interface.py)  *)
(* hands it the current readings and the three results of                   *)
(* analyze_all_trends.                                                      *)
(***************************************************************************)

(* current readings, in tenths: absent, null, or a value *)
ReadingSamples ==
    [ph |-> {59, 64, 66, 70},
     temperature |-> {190, 220, 270},
     do |-> {55, 65, 75}]

ReadingChoices(parameter) ==
    {[present |-> FALSE, value |-> None], [present |-> TRUE, value |-> None]}
    \cup {[present |-> TRUE, value |-> Some(v)] : v \in ReadingSamples[parameter]}

sensor_data(ph, temp, do) ==
    LET choice == [ph |-> ph, temperature |-> temp, do |-> do]
    IN [k \in {k \in DOMAIN choice : choice[k].present} |-> choice[k].value]

(* the last value and the fitted slope (tenths per hour, over 10) of the    *)
(* series behind a trend result                                             *)
TrendCurrents ==
    [ph |-> {59, 64, 66, 70},
     temperature |-> {190, 220, 270, 285},
     do |-> {55, 65, 75}]

TrendSlopes ==
    [ph |-> {0 - 10, 0 - 6, 0, 6},
     temperature |-> {0 - 6, 0, 6},
     do |-> {0 - 10, 0 - 6, 0}]

TrendResults(parameter) ==
    {insufficient_data}
    \cup {trend_result(parameter, <<>>, c,
                       [direction |-> Direction(Rate(r, 10)), slope |-> Rate(r, 10)],
                       "stable") :
            c \in TrendCurrents[parameter], r \in TrendSlopes[parameter]}

InitCorr ==
    /\ InitQuiet
    /\ ta = NoTrend
    /\ main = NoAutomation
    /\ \E ph \in ReadingChoices("ph"), temp \in ReadingChoices("temperature"),
          do \in ReadingChoices("do") :
       \E ph_trend \in TrendResults("ph"),
          temp_trend \in TrendResults("temperature"),
          do_trend \in TrendResults("do") :
          pa = [readings |-> sensor_data(ph, temp, do),
                trends |-> [ph |-> ph_trend, temperature |-> temp_trend,
                            do |-> do_trend],
                result |-> None,
                done |-> FALSE]

AnalyzeCorrelationsAdvanced ==
    /\ ~pa.done
    /\ pa' = [pa EXCEPT
                 !.result = Some(analyze_correlations_advanced(pa.readings, pa.trends)),
                 !.done = TRUE]
    /\ UNCHANGED <<manager_vars, ev, ta, main>>

NextCorr == AnalyzeCorrelationsAdvanced

SpecCorr == InitCorr /\ [][NextCorr]_vars


-----------------------------------------------------------------------------
(* C12: with fewer than 5 historical points, the empty series of a failed   *)
(* query included, analyze_parameter_trend returns direction                *)
(* insufficient_data with concern level none and nothing else: no rate, no  *)
(* volatility, no prediction, no time to a threshold.                       *)
C12_InsufficientData ==
    ta.done /\ (Len(ta.rows) < 5 \/ ~ta.query_ok) =>
        /\ ta.result # None
        /\ Get(ta.result).trend = "insufficient_data"
        /\ Get(ta.result).concern_level = "none"
        /\ DOMAIN Get(ta.result) = {"trend", "concern_level", "recommendation"}

(* a series of four points, and a failed query over a longer one *)
C12_Witness ==
    /\ ta.done
    /\ \/ Len(ta.rows) = 4 /\ ta.query_ok
       \/ Len(ta.rows) > 5 /\ ~ta.query_ok
    /\ Get(ta.result).trend = "insufficient_data"

-----------------------------------------------------------------------------
(* C13: the direction is rising exactly when the fitted slope is above 0.05 *)
(* per hour, falling exactly when it is below -0.05, and stable for every   *)
(* slope from -0.05 to 0.05; there is no other direction.                   *)
C13_DirectionFromSlope ==
    ta.done /\ "rate_of_change" \in DOMAIN Get(ta.result) =>
        LET r == Get(ta.result)
            slope == r.rate_of_change
        IN /\ r.trend \in {"rising", "falling", "stable"}
           /\ r.trend = "rising" <=> 2 * slope.num > slope.den
           /\ r.trend = "falling" <=> 2 * slope.num < 0 - slope.den
           /\ r.trend = "stable" <=> 2 * Abs(slope.num) <= slope.den

(* a slope of exactly 0.05, and one in the dead zone, both stable *)
C13_Witness ==
    /\ ta.done
    /\ "rate_of_change" \in DOMAIN Get(ta.result)
    /\ Get(ta.result).trend = "stable"
    /\ LET slope == Get(ta.result).rate_of_change
       IN /\ 10 * slope.num >= slope.den
          /\ 2 * slope.num <= slope.den

-----------------------------------------------------------------------------
(* the concern a call returned: its level and its time to a threshold *)
Level == Get(ta.result).level
TimeToThreshold == dict_get(Get(ta.result), "time_to_threshold", None)

(* t tenths of an hour is distance / abs(rate) to one decimal *)
IsRounded(t, distance) ==
    /\ t # None
    /\ 2 * Abs(10 * distance * ta.rate.den - Get(t) * Abs(ta.rate.num))
            <= Abs(ta.rate.num)

(* the escalation rule on the distances to the warning, critical and        *)
(* optimal bounds of the side the value is moving to                        *)
Escalates(to_warning, to_critical, to_optimal) ==
    LET speed == Abs(ta.rate.num)
        critical == to_critical > 0 /\ to_critical * ta.rate.den < 12 * speed
        warning == to_warning > 0 /\ to_warning * ta.rate.den < 24 * speed
    IN IF critical
       THEN Level = "critical" /\ IsRounded(TimeToThreshold, to_critical)
       ELSE IF warning
       THEN Level = "warning" /\ IsRounded(TimeToThreshold, to_warning)
       ELSE IF to_optimal > 0
       THEN Level = "watch" /\ TimeToThreshold = None
       ELSE Level = "none" /\ TimeToThreshold = None

(* C14: for ph, temperature and do with a falling trend, the level is       *)
(* critical with the hours to critical_low if those are below 12, else      *)
(* warning with the hours to warning_low if those are below 24, else watch  *)
(* if the value is above optimal_low, else none; hours to a bound exist     *)
(* only for a value above it and are reported to one decimal.  A rising     *)
(* trend is the mirror image on warning_high, critical_high, optimal_high.  *)
C14_Escalation ==
    ta.done /\ ta.parameter \in {"ph", "temperature", "do"} =>
        LET th == trend_thresholds[ta.parameter]
            c == ta.current
        IN /\ ta.trend = "falling" =>
                Escalates(c - th.warning_low, c - th.critical_low,
                          c - th.optimal_low)
           /\ ta.trend = "rising" =>
                Escalates(th.warning_high - c, th.critical_high - c,
                          th.optimal_high - c)

(* a falling value 12 hours or more from critical_low and less than 24      *)
(* from warning_low: a warning, timed to warning_low                        *)
C14_Witness ==
    /\ ta.done
    /\ ta.parameter = "do"
    /\ ta.trend = "falling"
    /\ Level = "warning"
    /\ (ta.current - 40) * ta.rate.den = 12 * Abs(ta.rate.num)
    /\ IsRounded(TimeToThreshold, ta.current - 60)

-----------------------------------------------------------------------------
(* C15: for a stable direction the level is none exactly when the value is  *)
(* within the optimal band, its ends included, and watch for every value    *)
(* outside; a stable trend carries no time to a threshold.                  *)
C15_StableRule ==
    ta.done /\ ta.parameter \in {"ph", "temperature", "do"}
            /\ ta.trend = "stable" =>
        LET th == trend_thresholds[ta.parameter]
        IN /\ Level = "none" <=>
                (th.optimal_low <= ta.current /\ ta.current <= th.optimal_high)
           /\ Level # "none" => Level = "watch"
           /\ TimeToThreshold = None

(* a slowly drifting value at the lower end of the band: none *)
C15_Witness ==
    /\ ta.done
    /\ ta.trend = "stable"
    /\ ta.rate.num # 0
    /\ ta.parameter = "ph"
    /\ ta.current = trend_thresholds.ph.optimal_low
    /\ Level = "none"

-----------------------------------------------------------------------------
(* the call of analyze_correlations_advanced, as the claims below see it *)
Returned == "returns" \in DOMAIN Get(pa.result)

Analysis == Get(pa.result).returns

(* the current value the step works with: the reading, or its default *)
Current(k) ==
    dict_get(pa.readings, k, Some([ph |-> 70, temperature |-> 220, do |-> 75][k]))

NullOrAbsent(k) == k \notin DOMAIN pa.readings \/ pa.readings[k] = None

IsLess(k, c) == Current(k) # None /\ Get(Current(k)) < c

IsMore(k, c) == Current(k) # None /\ Get(Current(k)) > c

Trend(k) == trend_of(pa.trends[k])

TimeOf(k) == dict_get(pa.trends[k], "time_to_threshold", None)

(* the conditions of the first three patterns *)
Biofilter ==
    /\ IsLess("ph", 65) /\ Trend("ph") = "falling"
    /\ IsLess("do", 70) /\ Trend("do") = "falling"

TemperatureOxygen ==
    /\ IsMore("temperature", 250) /\ Trend("temperature") = "rising"
    /\ IsLess("do", 70) /\ Trend("do") = "falling"

PhWarning ==
    /\ Trend("ph") = "falling"
    /\ concern_of(pa.trends.ph) \in {"warning", "critical"}

Actions == [i \in 1..Len(Analysis.intervention_priority) |->
               Analysis.intervention_priority[i].action]

Orders == [i \in 1..Len(Analysis.intervention_priority) |->
              Analysis.intervention_priority[i].order]

IsBiofilter ==
    /\ Analysis.root_cause = Some("Biofilter collapse cascade")
    /\ Analysis.system_state = "critical_cascade"
    /\ Orders = <<1, 2, 3, 4>>
    /\ Actions = <<"IMMEDIATE: Raise pH to 7.0+", "IMMEDIATE: Maximize aeration",
                   "Stop feeding for 24-48h", "Monitor ammonia every 2 hours">>

IsTemperatureOxygen ==
    /\ Analysis.system_state = "temperature_oxygen_cascade"
    /\ Analysis.root_cause # None
    /\ Orders = <<1, 2, 3>>
    /\ Actions = <<"Cool water immediately", "Increase aeration 50%",
                   "Reduce feeding by 50%">>

IsPreventive ==
    /\ Analysis.system_state = "preventive_action_needed"
    /\ Analysis.root_cause # None
    /\ Orders = <<1, 2>>
    /\ TimeOf("ph") # None
    /\ Analysis.intervention_priority[1].hours = Round(Get(TimeOf("ph")), 10)
    /\ Analysis.explanation.hours = Get(TimeOf("ph"))

(* C11: a call whose readings lack ph, temperature or do, or hold null for  *)
(* one of them, returns a result instead of raising.                        *)
C11_NullReadingTolerated ==
    pa.done /\ (\E k \in {"ph", "temperature", "do"} : NullOrAbsent(k))
        => Returned

(* C16: every call returns the result of the first pattern whose condition  *)
(* holds, in the order biofilter collapse, temperature-oxygen cascade,      *)
(* predictive pH warning, all optimal and stable; and with none of them, no *)
(* root cause and no intervention.                                          *)
C16_FirstMatchPriority ==
    pa.done =>
        /\ Returned
        /\ Biofilter => IsBiofilter
        /\ ~Biofilter /\ TemperatureOxygen => IsTemperatureOxygen
        /\ ~Biofilter /\ ~TemperatureOxygen /\ PhWarning => IsPreventive
        /\ ~Biofilter /\ ~TemperatureOxygen /\ ~PhWarning =>
              /\ Analysis.system_state \in {"optimal_stable", "unknown"}
              /\ Analysis.root_cause = None
              /\ Analysis.intervention_priority = <<>>

(* C17: with ph < 6.5 falling and do < 7 falling the call reports the       *)
(* biofilter collapse cascade, the smaller of the two times to threshold as *)
(* the time to failure, and the four interventions in order.                *)
C17_BiofilterCascade ==
    pa.done /\ Biofilter =>
        /\ Returned
        /\ IsBiofilter
        /\ Analysis.explanation.hours =
              Get(min(dict_get(pa.trends.ph, "time_to_threshold", Some(9990)),
                      dict_get(pa.trends.do, "time_to_threshold", Some(9990))))

(* C18: with the ph trend falling at concern warning or critical, and       *)
(* neither the biofilter nor the temperature-oxygen condition holding, the  *)
(* call reports the preventive state with two interventions (order 1, 2)    *)
(* whose deadline is the time to threshold of ph.                           *)
C18_PredictivePhWarning ==
    pa.done /\ PhWarning /\ ~Biofilter /\ ~TemperatureOxygen =>
        Returned /\ IsPreventive

(* the same over the calls in which no reading is null *)
PredictivePhWarningNonNull ==
    /\ pa.done /\ PhWarning /\ ~Biofilter /\ ~TemperatureOxygen
    /\ \A k \in DOMAIN pa.readings : pa.readings[k] # None
    => Returned /\ IsPreventive

(* C19: a call reports optimal_stable exactly when no earlier pattern       *)
(* matched, the three trends are stable and each current value lies in the  *)
(* optimal band of its thresholds; it then has no root cause, no            *)
(* intervention, and no parameter whose concern level is other than none.   *)
InBand(k) ==
    Current(k) # None /\ InOptimalBand(trend_thresholds[k], Get(Current(k)))

C19_OptimalStable ==
    pa.done /\ Returned =>
        /\ Analysis.system_state = "optimal_stable"
              <=> /\ ~Biofilter /\ ~TemperatureOxygen /\ ~PhWarning
                  /\ \A k \in {"ph", "temperature", "do"} :
                        Trend(k) = "stable" /\ InBand(k)
        /\ Analysis.system_state = "optimal_stable" =>
              /\ Analysis.root_cause = None
              /\ Analysis.intervention_priority = <<>>
              /\ \A k \in {"ph", "temperature", "do"} :
                    concern_of(pa.trends[k]) = "none"

(***************************************************************************)
(* Configured thresholds: class Config (core/config.py) holds the water     *)
(* quality thresholds the file invites the operator to edit; main.py builds *)
(* it at import, starts the scheduler, and control_automation runs against  *)
(* it every minute.                                                         *)
(***************************************************************************)

MaxRuns == 2

(* values an edited config.py may hold, in tenths *)
TempSettings == {180, 220, 250}

DoSettings == {50, 70}

InitAutomation ==
    /\ InitQuiet
    /\ ta = NoTrend
    /\ pa = NoCorr
    /\ \E temp_min \in TempSettings, temp_max \in TempSettings,
          do_normal \in DoSettings, do_critical \in DoSettings :
          main = [NoAutomation EXCEPT
                     !.config = [Config EXCEPT
                                    !.temp_min = temp_min,
                                    !.temp_max = temp_max,
                                    !.do_normal = do_normal,
                                    !.do_critical = do_critical]]

(* config = Config(): the generated __init__ stores the fields as given;    *)
(* then the jobs are scheduled and the scheduler started                    *)
Startup ==
    /\ ~main.started
    /\ main' = [main EXCEPT !.started = TRUE]
    /\ UNCHANGED <<manager_vars, ev, ta, pa>>

(* sensors[name] and sensors[name] < limit: None and zero are falsy *)
Truthy(x) == x # None /\ Get(x) # 0

(* values of system_state['sensors'], in tenths *)
AutomationSensors ==
    [temp_reservoir : {None, Some(170), Some(230), Some(260)},
     do : {None, Some(45), Some(80)},
     water_level_percent : {None, Some(150), Some(500)}]

control_automation(m, sensors) ==
    LET config == m.config
        temp == sensors.temp_reservoir
        do == sensors.do
        level == sensors.water_level_percent
        heater ==
            IF Truthy(temp) /\ Get(temp) < config.temp_min THEN TRUE
            ELSE IF Truthy(temp) /\ Get(temp) > config.temp_max THEN FALSE
            ELSE m.relays.heater
        low_do == Truthy(do) /\ Get(do) < config.do_critical
        backup_aerator ==
            IF low_do THEN TRUE
            ELSE IF Truthy(do) /\ Get(do) > config.do_normal THEN FALSE
            ELSE m.relays.backup_aerator
        do_alert ==
            IF low_do
            THEN <<[level |-> "critical", message |-> "Low dissolved oxygen"]>>
            ELSE <<>>
        level_alert ==
            IF Truthy(level) /\ Get(level) < 200
            THEN <<[level |-> "critical", message |-> "Low water level"]>>
            ELSE <<>>
    IN [m EXCEPT
           !.relays = [heater |-> heater, backup_aerator |-> backup_aerator],
           !.alerts = m.alerts \o do_alert \o level_alert,
           !.runs = m.runs + 1]

ControlAutomation ==
    /\ main.started
    /\ main.runs < MaxRuns
    /\ \E sensors \in AutomationSensors :
          main' = control_automation(main, sensors)
    /\ UNCHANGED <<manager_vars, ev, ta, pa>>

NextAutomation == Startup \/ ControlAutomation

SpecAutomation == InitAutomation /\ [][NextAutomation]_vars

-----------------------------------------------------------------------------
(* the ordering of one set of thresholds, over the bounds it defines; the   *)
(* optimal band is optimal_min..optimal_max in AlertManager and             *)
(* optimal_low..optimal_high in TrendAnalyzer                               *)
Chain(t) ==
    LET names == <<"critical_low", "warning_low", "optimal_min", "optimal_low",
                   "optimal_max", "optimal_high", "warning_high", "critical_high">>
    IN SelectSeq(names, LAMBDA n : n \in DOMAIN t)

Ordered(t) ==
    \A i \in 1..(Len(Chain(t)) - 1) :
        LET a == Chain(t)[i]
            b == Chain(t)[i + 1]
        IN IF a \in {"optimal_min", "optimal_low"} THEN t[a] <= t[b]
           ELSE t[a] < t[b]

ConfigOrdered(c) ==
    /\ c.temp_critical_low < c.temp_min
    /\ c.temp_min <= c.temp_max
    /\ c.temp_max < c.temp_critical_high
    /\ c.do_critical < c.do_normal

(* the two tables written into the code are ordered *)
TablesOrdered ==
    /\ \A k \in DOMAIN thresholds : Ordered(thresholds[k])
    /\ \A k \in DOMAIN trend_thresholds : Ordered(trend_thresholds[k])

(* C20: every set of thresholds in use is ordered critical_low <            *)
(* warning_low < optimal_low <= optimal_high < warning_high < critical_high *)
(* over the bounds it defines, and a configuration that is not is rejected  *)
(* at startup, so that no cycle runs against it.                            *)
C20_OrderedOrRejected ==
    /\ TablesOrdered
    /\ main.started => ConfigOrdered(main.config)
    /\ main.runs > 0 => ConfigOrdered(main.config)

-----------------------------------------------------------------------------
(* the denominator n * sum(x^2) - (sum x)^2 of the regression on the rows   *)
(* of ta                                                                    *)
Denominator ==
    LET n == Len(ta.rows)
        x == [i \in 1..n |-> ta.rows[i].timestamp - ta.rows[1].timestamp]
    IN n * Sum([i \in 1..n |-> x[i] * x[i]]) - Sum(x) * Sum(x)

LastValue == ta.rows[Len(ta.rows)].value

(* C23: when the denominator of the regression is zero, the result has      *)
(* direction stable and rate_of_change 0, and its concern level is that of  *)
(* the stable rule: none inside the optimal band, watch outside, with no    *)
(* time to threshold.                                                       *)
C23_DegenerateTimeAxis ==
    ta.done /\ ta.query_ok /\ Len(ta.rows) >= min_points /\ Denominator = 0 =>
        LET result == Get(ta.result)
        IN /\ result.trend = "stable"
           /\ result.rate_of_change.num = 0
           /\ result.time_to_threshold = None
           /\ result.concern_level =
                 IF ta.parameter \notin DOMAIN trend_thresholds THEN "none"
                 ELSE IF /\ trend_thresholds[ta.parameter].optimal_low <= LastValue
                         /\ LastValue <= trend_thresholds[ta.parameter].optimal_high
                      THEN "none"
                      ELSE "watch"

(* five readings at one timestamp whose values climb into the optimal band *)
C23_Witness ==
    /\ ta.done /\ ta.query_ok
    /\ Len(ta.rows) = min_points
    /\ Denominator = 0
    /\ ta.parameter = "ph"
    /\ ta.rows[1].value < LastValue
    /\ LastValue = trend_thresholds.ph.optimal_low
    /\ Get(ta.result).concern_level = "none"

(***************************************************************************)
(* A single call of _calculate_trend on samples of a line: the readings are *)
(* taken at distinct even hours 2 * s, and the line rises k / 2 tenths per  *)
(* hour, so that k = 1 is 0.05 per hour exactly.                            *)
(***************************************************************************)

MaxSlope == 3

MaxGap == 2

(* the steps s of the readings: a first step and the gaps that follow *)
Steps(first, gaps) ==
    [i \in 1..(Len(gaps) + 1) |-> first + Sum(SubSeq(gaps, 1, i - 1))]

InitRegression ==
    /\ InitQuiet
    /\ pa = NoCorr
    /\ main = NoAutomation
    /\ \E n \in min_points..MaxPoints, first \in {0, 1}, a \in {55, 70},
          k \in (0 - MaxSlope)..MaxSlope :
        \E gaps \in [1..(n - 1) -> 1..MaxGap] :
            LET steps == Steps(first, gaps)
            IN ta = [line |-> [a |-> a, k |-> k],
                     values |-> [i \in 1..n |-> a + k * steps[i]],
                     timestamps |-> [i \in 1..n |-> 2 * steps[i]],
                     result |-> None,
                     done |-> FALSE]

CalculateTrend ==
    /\ ~ta.done
    /\ ta' = [ta EXCEPT
                !.result = Some(_calculate_trend(ta.values, ta.timestamps)),
                !.done = TRUE]
    /\ UNCHANGED <<manager_vars, ev, pa, main>>

NextRegression == CalculateTrend

SpecRegression == InitRegression /\ [][NextRegression]_vars

-----------------------------------------------------------------------------
(* C21: on at least 5 samples of a line v(t) = a + b * t at distinct times, *)
(* _calculate_trend returns the rate b, with direction rising when          *)
(* b > 0.05 and falling when b < -0.05.                                     *)
C21_RegressionSanity ==
    ta.done =>
        LET fit == Get(ta.result)
            k == ta.line.k
        IN /\ 2 * fit.slope.num = k * fit.slope.den
           /\ k > 1 => fit.direction = "rising"
           /\ k < 0 - 1 => fit.direction = "falling"

(* a rising line sampled at unequal intervals, not starting at hour 0 *)
C21_Witness ==
    /\ ta.done
    /\ ta.line.k = 2
    /\ ta.timestamps[1] > 0
    /\ \E i \in 2..(Len(ta.timestamps) - 1) :
          ta.timestamps[i + 1] - ta.timestamps[i]
              # ta.timestamps[i] - ta.timestamps[i - 1]
    /\ Get(ta.result).direction = "rising"

(***************************************************************************)
(* A single call of _calculate_volatility on any short series, the series   *)
(* around zero included.                                                    *)
(***************************************************************************)

MaxVolatilityPoints == 4

VolatilityValues == {0 - 2, 0, 2, 100, 103, 110}

InitVolatility ==
    /\ InitQuiet
    /\ pa = NoCorr
    /\ main = NoAutomation
    /\ \E n \in 0..MaxVolatilityPoints :
        \E values \in [1..n -> VolatilityValues] :
            ta = [values |-> values, result |-> None, done |-> FALSE]

CalculateVolatility ==
    /\ ~ta.done
    /\ ta' = [ta EXCEPT
                !.result = Some(_calculate_volatility(ta.values)),
                !.done = TRUE]
    /\ UNCHANGED <<manager_vars, ev, pa, main>>

NextVolatility == CalculateVolatility

SpecVolatility == InitVolatility /\ [][NextVolatility]_vars

-----------------------------------------------------------------------------
(* cv < c for the series of ta, whose mean is not zero, with                *)
(* cv = stdev / mean * 100 and stdev the sample standard deviation          *)
CvBelow(c) ==
    LET n == Len(ta.values)
        s == Sum(ta.values)
        s2 == Sum([i \in 1..n |-> ta.values[i] * ta.values[i]])
    IN s < 0 \/ 10000 * n * (n * s2 - s * s) < c * c * (n - 1) * s * s

Classified ==
    IF CvBelow(2) THEN "stable" ELSE IF CvBelow(5) THEN "moderate" ELSE "volatile"

(* C22: _calculate_volatility returns unknown for fewer than 3 points or a  *)
(* mean of zero, and otherwise stable, moderate or volatile as cv is below  *)
(* 2, below 5, or not.                                                      *)
C22_Volatility ==
    ta.done =>
        Get(ta.result) =
            IF Len(ta.values) < 3 \/ Sum(ta.values) = 0 THEN "unknown"
            ELSE Classified

(* the same, over the series whose mean is not zero *)
VolatilityNonZeroMean ==
    ta.done /\ Sum(ta.values) # 0 =>
        Get(ta.result) = IF Len(ta.values) < 3 THEN "unknown" ELSE Classified

-----------------------------------------------------------------------------
(* C24: alert_history changes only in the step of check_thresholds that     *)
(* accepts an alert, and then only at that alert's key, which is set to     *)
(* now; suppressing an alert, skipping a reading, dispatching, returning,   *)
(* test_notifications and the passing of time leave it as it is, and no     *)
(* step removes an entry.                                                   *)
C24_HistoryFrame ==
    [][/\ DOMAIN alert_history \subseteq DOMAIN alert_history'
       /\ alert_history' # alert_history =>
            \E j \in Jobs :
                /\ AcceptStep(j)
                /\ LET k == alert_key(Get(alert[j]))
                   IN /\ DOMAIN alert_history' = DOMAIN alert_history \cup {k}
                      /\ alert_history'[k] = now
                      /\ \A o \in DOMAIN alert_history \ {k} :
                            alert_history'[o] = alert_history[o]
       /\ (\A j \in Jobs : ~AcceptStep(j)) => alert_history' = alert_history
      ]_vars

(* a cycle that returned no alert because the one it evaluated was          *)
(* suppressed: the entry of its key is still the time of the acceptance     *)
C24_Witness ==
    /\ returned = Some(<<>>)
    /\ \E s \in BagToSet(suppressed) :
        /\ s.at = now
        /\ alert_history[s.sensor \o "_" \o s.level] < now
        /\ BagIn([sensor |-> s.sensor, level |-> s.level,
                  at |-> alert_history[s.sensor \o "_" \o s.level]], accepted)

-----------------------------------------------------------------------------
(* C25: the step of check_thresholds that calls _check_sensor_threshold,    *)
(* whatever the call returns, leaves alert_history as it is and sends       *)
(* nothing on any channel; it changes only the locals of its own cycle.     *)
C25_EvaluatorPure ==
    [][\A j \in Jobs :
        EvaluateStep(j) =>
            /\ alert_history' = alert_history
            /\ outbox' = outbox
            /\ accepted' = accepted
            /\ suppressed' = suppressed
            /\ returned' = returned
            /\ <<now, config_vars, cycles, tests>>' = <<now, config_vars, cycles, tests>>
      ]_vars

(* an evaluation has just built a critical alert, with an entry in          *)
(* alert_history and a message sent before it, and nothing sent since       *)
C25_Witness ==
    \E j \in Jobs :
        /\ pc[j] = "gate"
        /\ alert[j] # None
        /\ Get(alert[j]).level = "critical"
        /\ Get(alert[j]).timestamp = now
        /\ alert_key(Get(alert[j])) \in DOMAIN alert_history
        /\ alert_history[alert_key(Get(alert[j]))] < now
        /\ outbox # EmptyBag

-----------------------------------------------------------------------------
(* C26: on readings none of which is null and on any three results of       *)
(* analyze_parameter_trend, analyze_correlations_advanced returns a result; *)
(* in particular when the biofilter or the temperature-oxygen pattern       *)
(* matches and one of its two trends has time_to_threshold None.            *)
C26_NeverRaises ==
    pa.done /\ (\A k \in DOMAIN pa.readings : pa.readings[k] # None)
        => /\ Returned
           /\ Biofilter /\ (TimeOf("ph") = None \/ TimeOf("do") = None)
                 => IsBiofilter
           /\ ~Biofilter /\ TemperatureOxygen
                 /\ (TimeOf("temperature") = None \/ TimeOf("do") = None)
                 => IsTemperatureOxygen

(***************************************************************************)
(* The periodic driver running for ever.  check_thresholds is one step (the *)
(* single driver never overlaps itself), and the clock is read relative to  *)
(* the present: `now` stays 0 and the entries of alert_history move into    *)
(* the past as time passes.  _is_in_cooldown only asks whether an entry is  *)
(* less than cooldown_minutes old, so an entry that old is not aged         *)
(* further.  outbox, accepted and suppressed hold what the last cycle did,  *)
(* and cycles counts the calls up to MaxLiveCycles.                         *)
(***************************************************************************)

MaxLiveCycles == 3

(* scheduler.add_job(read_all_sensors, 'interval', minutes=5) *)
interval_minutes == 5

(* a reading in critical breach *)
BreachSensor == "ph"

BreachValue == 45

(* one pass of the loop body of check_thresholds, on the state of the call  *)
loop_body(st, sensor_name, r, t, has_email, has_sms, email_outcome, sms_outcome) ==
    IF Skipped(sensor_name, r) THEN st
    ELSE
    LET a == _check_sensor_threshold(sensor_name, Get(r), thresholds[sensor_name], t)
    IN IF a = None THEN st
       ELSE IF _is_in_cooldown(Get(a), st.history, t)
       THEN [st EXCEPT !.suppressed = @ (+) SetToBag({Logged(Get(a), t)})]
       ELSE [st EXCEPT
                !.alerts = Append(@, Get(a)),
                !.history = _record_alert(Get(a), st.history, t),
                !.accepted = @ (+) SetToBag({Logged(Get(a), t)}),
                !.attempts = IF ShouldNotify(Get(a))
                             THEN @ (+) Deliveries(_send_notifications(Get(a),
                                        has_email, has_sms,
                                        email_outcome, sms_outcome).attempts)
                             ELSE @]

RECURSIVE check_thresholds(_, _, _, _, _, _, _, _)
check_thresholds(i, st, sensors, t, has_email, has_sms, email_outcome, sms_outcome) ==
    IF i > Len(SensorKeys) THEN st
    ELSE check_thresholds(i + 1,
            loop_body(st, SensorKeys[i], sensors[i], t, has_email, has_sms,
                      email_outcome[i], sms_outcome[i]),
            sensors, t, has_email, has_sms, email_outcome, sms_outcome)

(* read_all_sensors hands check_thresholds readings among which the         *)
(* breaching one never changes                                              *)
LiveCycle ==
    /\ \E sensors \in [1..Len(SensorKeys) -> Readings],
          email_outcome \in [1..Len(SensorKeys) -> Outcomes],
          sms_outcome \in [1..Len(SensorKeys) -> Outcomes] :
        /\ \A i \in 1..Len(SensorKeys) :
              SensorKeys[i] = BreachSensor => sensors[i] = Some(BreachValue)
        /\ LET st == check_thresholds(1,
                        [history |-> alert_history, alerts |-> <<>>,
                         attempts |-> EmptyBag, accepted |-> EmptyBag,
                         suppressed |-> EmptyBag],
                        sensors, now, email_client /\ email_to,
                        sms_client /\ sms_to, email_outcome, sms_outcome)
           IN /\ alert_history' = st.history
              /\ returned' = Some(st.alerts)
              /\ outbox' = st.attempts
              /\ accepted' = st.accepted
              /\ suppressed' = st.suppressed
    /\ cycles' = IF cycles < MaxLiveCycles THEN cycles + 1 ELSE cycles
    /\ UNCHANGED <<now, config_vars, pc, idx, value, alert, alerts, tests,
                   ev, ta, pa, main>>

(* the interval between two runs of the job passes *)
LiveTick ==
    /\ alert_history' =
          [k \in DOMAIN alert_history |->
              IF alert_history[k] - interval_minutes < now - cooldown_minutes
              THEN now - cooldown_minutes
              ELSE alert_history[k] - interval_minutes]
    /\ UNCHANGED <<now, config_vars, pc, idx, value, alert, alerts, returned,
                   cycles, tests, outbox, accepted, suppressed, ev, ta, pa, main>>

NextLive == LiveCycle \/ LiveTick

(* the scheduler keeps running the job, and time keeps passing *)
SpecLive == Init /\ [][NextLive]_vars /\ WF_vars(LiveCycle) /\ WF_vars(LiveTick)

-----------------------------------------------------------------------------
(* the last cycle accepted a critical alert for the breaching sensor and    *)
(* handed it to every configured channel                                    *)
ReAlerted ==
    /\ \E a \in BagToSet(accepted) :
          a.sensor = BreachSensor /\ a.level = "critical"
    /\ returned # None
    /\ \E i \in 1..Len(Get(returned)) :
          Get(returned)[i].sensor = BreachSensor
    /\ \A channel \in {"email", "sms"} :
          (IF channel = "email" THEN email_client /\ email_to
                                ELSE sms_client /\ sms_to)
          => \E d \in BagToSet(outbox) :
                d.channel = channel /\ d.sensor = BreachSensor

(* C27: while a sensor stays in critical breach and check_thresholds keeps  *)
(* being called, a critical alert for it is accepted and dispatched again   *)
(* and again.                                                               *)
C27_ReAlert == []<>ReAlerted

(* an acceptance in the third or a later cycle: the first cycle accepted,   *)
(* so this one follows a full window                                        *)
C27_Witness ==
    /\ cycles = MaxLiveCycles
    /\ ReAlerted
    /\ email_client /\ email_to
    /\ alert_history[BreachSensor \o "_critical"] = now

-----------------------------------------------------------------------------
(* the order of the concern levels *)
Rank(level) ==
    CASE level = "none" -> 0 [] level = "watch" -> 1
      [] level = "warning" -> 2 [] level = "critical" -> 3

(* the level of the call of ta had its trend been stable *)
StableLevel ==
    _assess_concern(ta.parameter, ta.current, "stable", Rate(0, 1),
                    _predict_future(ta.parameter, ta.current, Rate(0, 1), 24)).level

MaxJobRuns == 8

MaxReads == 2

MaxAnalyses == 2

(* what the sensor hardware returns: null, or a value in tenths *)
SystemSensors ==
    [ph : {None, Some(45)},
     do : {None, Some(45), Some(80)},
     water_level : {None},
     temp_reservoir : {None},
     water_level_percent : {None}]

InitAlerts ==
    /\ InitQuiet
    /\ ta = NoTrend
    /\ pa = NoCorr
    /\ main = NoAutomation @@
                [sensors |-> [ph |-> None, do |-> None, water_level |-> None,
                              temp_reservoir |-> None,
                              water_level_percent |-> None],
                 system_status |-> "starting",
                 plant_health |-> "unknown",
                 reads |-> 0,
                 analyses |-> 0]

(* system_state['alerts'][-10:] *)
Last(n, seq) ==
    IF Len(seq) <= n THEN seq ELSE SubSeq(seq, Len(seq) - n + 1, Len(seq))

(* read_all_sensors: the readings are stored and checked, and the alerts    *)
(* check_thresholds returns, if any, are added and the list cut to its last *)
(* 10; or a sensor raises, and the except branch adds an error alert        *)
ReadAllSensors ==
    /\ main.started
    /\ main.reads < MaxReads
    /\ \/ \E sensors \in SystemSensors :
            LET st == check_thresholds(1,
                         [history |-> alert_history, alerts |-> <<>>,
                          attempts |-> EmptyBag, accepted |-> EmptyBag,
                          suppressed |-> EmptyBag],
                         [i \in 1..Len(SensorKeys) |-> sensors[SensorKeys[i]]],
                         now, email_client /\ email_to, sms_client /\ sms_to,
                         [i \in 1..Len(SensorKeys) |-> "ok"],
                         [i \in 1..Len(SensorKeys) |-> "ok"])
            IN /\ alert_history' = st.history
               /\ returned' = Some(st.alerts)
               /\ outbox' = outbox (+) st.attempts
               /\ accepted' = accepted (+) st.accepted
               /\ suppressed' = suppressed (+) st.suppressed
               /\ main' = [main EXCEPT
                              !.sensors = sensors,
                              !.system_status = "running",
                              !.alerts = IF st.alerts # <<>>
                                         THEN Last(10, @ \o st.alerts)
                                         ELSE @,
                              !.reads = @ + 1]
       \/ /\ main' = [main EXCEPT
                         !.system_status = "error",
                         !.alerts = Append(@, [level |-> "error",
                                               message |-> "Sensor reading error"]),
                         !.reads = @ + 1]
          /\ UNCHANGED <<alert_history, returned, outbox, accepted, suppressed>>
    /\ UNCHANGED <<now, config_vars, pc, idx, value, alert, alerts, cycles,
                   tests, ev, ta, pa>>

(* control_automation, on the sensors read_all_sensors stored *)
AutomationJob ==
    /\ main.started
    /\ main.runs < MaxJobRuns
    /\ main' = control_automation(main,
                  [temp_reservoir |-> main.sensors.temp_reservoir,
                   do |-> main.sensors.do,
                   water_level_percent |-> main.sensors.water_level_percent])
    /\ UNCHANGED <<manager_vars, ev, ta, pa>>

(* analyze_plant_health: a status other than healthy adds a warning *)
AnalyzePlantHealth ==
    /\ main.started
    /\ main.analyses < MaxAnalyses
    /\ \E status \in {"healthy", "diseased"} :
          main' = [main EXCEPT
                      !.plant_health = status,
                      !.alerts = IF status # "healthy"
                                 THEN Append(@, [level |-> "warning",
                                                 message |-> "Plant health issue detected"])
                                 ELSE @,
                      !.analyses = @ + 1]
    /\ UNCHANGED <<manager_vars, ev, ta, pa>>

NextAlerts == Startup \/ ReadAllSensors \/ AutomationJob \/ AnalyzePlantHealth

SpecAlerts == InitAlerts /\ [][NextAlerts]_vars

-----------------------------------------------------------------------------
(* C29: whatever the order in which read_all_sensors, control_automation    *)
(* and analyze_plant_health ran, system_state['alerts'] holds at most 10    *)
(* alerts.                                                                  *)
C29_AlertsBounded == Len(main.alerts) <= 10

(* the list is cut only by a read that was handed alerts *)
AlertsBoundedAfterAcceptingRead ==
    [][main.reads' # main.reads /\ returned' # returned
          /\ returned' # None /\ Get(returned') # <<>>
          => Len(main.alerts') <= 10]_vars

(***************************************************************************)
(* The sensor history: read_all_sensors logs each cycle's readings through  *)
(* the DatabaseManager of core/main.py, and get_predictive_analysis reads   *)
(* the history back through a TrendAnalyzer on a DatabaseManager of its     *)
(* own.  ta holds the database files by path and the clock, in sensor       *)
(* cycles.                                                                  *)
(***************************************************************************)

MaxLogged == 5

(* Config.database_path, the file core/main.py opens *)
database_path == "data/databases/hydroponics.db"

(* the default db_path of DatabaseManager.__init__ *)
db_path == "hydroponics.db"

DatabasePaths == {database_path, db_path}

(* the columns of CREATE TABLE sensor_readings *)
sensor_readings ==
    {"id", "timestamp", "ph", "ec", "do", "temp_reservoir", "temp_fish_tank",
     "water_level_percent"}

(* log_sensor_reading: INSERT INTO sensor_readings, at CURRENT_TIMESTAMP *)
log_sensor_reading(table, sensors, t) ==
    Append(table,
           [id |-> Len(table) + 1,
            timestamp |-> t,
            ph |-> sensors.ph,
            ec |-> sensors.ec,
            do |-> sensors.do,
            temp_reservoir |-> sensors.temp_reservoir,
            temp_fish_tank |-> sensors.temp_fish_tank,
            water_level_percent |-> sensors.water_level_percent])

(* the columns the query of _get_historical_data names *)
query_columns == {"timestamp", "value", "parameter"}

param_map ==
    [ph |-> "ph", temperature |-> "temp_reservoir", do |-> "do", ec |-> "ec"]

(* conn.execute(query, (db_param, since)): SELECT timestamp, value FROM      *)
(* sensor_readings WHERE parameter = ? AND timestamp >= ? ORDER BY           *)
(* timestamp ASC; sqlite raises when the table lacks a column the query      *)
(* names                                                                     *)
execute(table, db_param, since) ==
    IF query_columns \subseteq sensor_readings
    THEN LET matches(row) == row["parameter"] = db_param /\ row.timestamp >= since
             rows == SelectSeq(table, matches)
         IN [ok |-> TRUE,
             rows |-> [i \in 1..Len(rows) |->
                          [timestamp |-> rows[i].timestamp,
                           value |-> rows[i]["value"]]]]
    ELSE [ok |-> FALSE, rows |-> <<>>]

(* the sensors read_all_sensors hands to log_sensor_reading *)
LoggedSensors ==
    [ph : {None, Some(64), Some(66)},
     ec : {None},
     do : {Some(70)},
     temp_reservoir : {Some(210)},
     temp_fish_tank : {None},
     water_level_percent : {None}]

InitHistory ==
    /\ InitQuiet
    /\ pa = NoCorr
    /\ main = NoAutomation
    /\ ta = [files |-> [p \in DatabasePaths |-> <<>>],
             clock |-> 0,
             parameter |-> "ph",
             data |-> <<>>,
             result |-> None,
             done |-> FALSE]

(* one sensor cycle: db_manager.log_sensor_reading(system_state['sensors']) *)
LogSensorReading ==
    /\ Len(ta.files[database_path]) < MaxLogged
    /\ \E sensors \in LoggedSensors :
          ta' = [ta EXCEPT
                    !.files[database_path] = log_sensor_reading(@, sensors, ta.clock),
                    !.clock = @ + 1,
                    !.done = FALSE]
    /\ UNCHANGED <<manager_vars, ev, pa, main>>

(* get_predictive_analysis: TrendAnalyzer(DatabaseManager()) analyses a     *)
(* parameter over the last 24 hours                                         *)
GetPredictiveAnalysis ==
    /\ ~ta.done
    /\ \E parameter \in {"ph", "temperature", "do"} :
          LET since == ta.clock - (24 * 60) \div interval_minutes
              cursor == execute(ta.files[db_path], param_map[parameter], since)
              data == _get_historical_data(cursor.rows, cursor.ok)
          IN ta' = [ta EXCEPT
                       !.parameter = parameter,
                       !.data = data,
                       !.result = Some(analyze_parameter_trend(parameter, data)),
                       !.done = TRUE]
    /\ UNCHANGED <<manager_vars, ev, pa, main>>

NextHistory == LogSensorReading \/ GetPredictiveAnalysis

SpecHistory == InitHistory /\ [][NextHistory]_vars

(* the points logged for a parameter within the last 24 hours, in time order *)
LoggedPoints(parameter) ==
    LET table == ta.files[database_path]
        since == ta.clock - (24 * 60) \div interval_minutes
        logged(row) == row[param_map[parameter]] # None /\ row.timestamp >= since
        rows == SelectSeq(table, logged)
    IN [i \in 1..Len(rows) |->
           [timestamp |-> rows[i].timestamp,
            value |-> Get(rows[i][param_map[parameter]])]]

-----------------------------------------------------------------------------
(* C30: once at least 5 sensor cycles of the last 24 hours have logged a    *)
(* non-null value for a parameter, the trend analysis of that parameter     *)
(* obtains those points in time order and returns a direction other than    *)
(* insufficient_data.                                                       *)
C30_HistoryRoundTrip ==
    ta.done /\ Len(LoggedPoints(ta.parameter)) >= min_points =>
        /\ ta.data = LoggedPoints(ta.parameter)
        /\ Get(ta.result).trend # "insufficient_data"

(* the analysis never obtains a logged point *)
HistoryNeverRead ==
    ta.done => ta.data = <<>> /\ Get(ta.result) = insufficient_data

=============================================================================
